---- MODULE Spec2Model ----
(***************************************************************************)
(* A model of the rlang tree-walking interpreter (src/rlang/src): runtime  *)
(* values, the Environment chain, Expr::evaluate, Interpreter::interpret   *)
(* and the read-eval loop of the host binary that feeds it programs.       *)
(*                                                                         *)
(* Environments are shared, mutable, reference-counted cells in the code   *)
(* (Rc<RefCell<Environment>>); here they are cells of an arena `heap`,     *)
(* addressed by their index, 0 standing for the absent enclosing link.     *)
(* Evaluation is threaded through a record `st` (heap, interpreters,       *)
(* output, outcome) exactly in the order the code performs its effects.    *)
(* The field st.log is a history of what the evaluation did; it is not     *)
(* read by the modelled code, only by the properties.                      *)
(***************************************************************************)
EXTENDS Integers, Sequences, FiniteSets, TLC

(***************************************************************************)
(* Bounds of the model.                                                    *)
(***************************************************************************)
\* How many lines the read-eval loop accepts in one session.
MaxLines == 2
\* The readings the system clock can give (seconds): 1..MaxClock.
MaxClock == 2
\* How many lines a session that applies single operators accepts.
MaxProbes == 1
\* How deep the scopes are nested below the global one where the methods of
\* Environment are applied, and how many of them are applied.
MaxDepth == 2
MaxCalls == 1

(***************************************************************************)
(* Runtime values: expr.rs LiteralValue.                                   *)
(***************************************************************************)
Number(x) == [t |-> "Number", n |-> x]
StringValue(x) == [t |-> "StringValue", s |-> x]
True == [t |-> "True"]
False == [t |-> "False"]
Nil == [t |-> "Nil"]
\* fun is what the Rc<dyn Fn> closure captured: its kind, the parameter
\* tokens, the body and the environment cell it holds a reference to.
Callable(name, arity, fun) ==
    [t |-> "Callable", name |-> name, arity |-> arity, fun |-> fun]

\* impl From<bool> for LiteralValue
FromBool(b) == IF b THEN True ELSE False

\* A panic!() of the host: the value an operation has when it unwinds.
Panicked == [t |-> "panic!"]

is_falsy(v) ==
    CASE v.t = "Number" -> IF v.n = 0 THEN True ELSE False
      [] v.t = "StringValue" -> IF v.s = "" THEN True ELSE False
      [] v.t = "True" -> False
      [] v.t = "False" -> True
      [] v.t = "Nil" -> True
      [] v.t = "Callable" -> Panicked

\* A truthiness for which only nil and false are false.
is_truthy_nil_false(v) ==
    CASE v.t = "Callable" -> Panicked
      [] v.t \in {"False", "Nil"} -> False
      [] OTHER -> True

is_truthy(v) ==
    CASE v.t = "Callable" -> Panicked
      [] v.t = "Number" -> IF v.n = 0 THEN False ELSE True
      [] v.t = "StringValue" -> IF v.s = "" THEN False ELSE True
      [] v.t = "True" -> True
      [] v.t = "False" -> False
      [] v.t = "Nil" -> False

\* impl PartialEq for LiteralValue: callables by name and arity only.
ValueEq(a, b) ==
    CASE a.t = "Number" /\ b.t = "Number" -> a.n = b.n
      [] a.t = "Callable" /\ b.t = "Callable" ->
            a.name = b.name /\ a.arity = b.arity
      [] a.t = "StringValue" /\ b.t = "StringValue" -> a.s = b.s
      [] a.t = "True" /\ b.t = "True" -> TRUE
      [] a.t = "False" /\ b.t = "False" -> TRUE
      [] a.t = "Nil" /\ b.t = "Nil" -> TRUE
      [] OTHER -> FALSE

(***************************************************************************)
(* Expressions and statements: expr.rs Expr, stmt.rs Stmt.  A token is     *)
(* kept as what the interpreter reads of it: its lexeme (names) or its     *)
(* token type (operators).  An Option is a sequence of length 0 or 1.      *)
(***************************************************************************)
AnonFunction(arguments, body) ==
    [e |-> "AnonFunction", arguments |-> arguments, body |-> body]
Assign(name, value) == [e |-> "Assign", name |-> name, value |-> value]
Binary(left, operator, right) ==
    [e |-> "Binary", left |-> left, operator |-> operator, right |-> right]
Call(callee, arguments) ==
    [e |-> "Call", callee |-> callee, arguments |-> arguments]
Grouping(expression) == [e |-> "Grouping", expression |-> expression]
Logical(left, operator, right) ==
    [e |-> "Logical", left |-> left, operator |-> operator, right |-> right]
Literal(value) == [e |-> "Literal", value |-> value]
Unary(operator, right) ==
    [e |-> "Unary", operator |-> operator, right |-> right]
Variable(name) == [e |-> "Variable", name |-> name]

Expression(expression) == [s |-> "Expression", expression |-> expression]
PrintStmt(expression) == [s |-> "Print", expression |-> expression]
Var(name, initializer) ==
    [s |-> "Var", name |-> name, initializer |-> initializer]
Block(statements) == [s |-> "Block", statements |-> statements]
IfStmt(predicate, then, else) ==
    [s |-> "IfStmt", predicate |-> predicate, then |-> then, else |-> else]
WhileStmt(condition, body) ==
    [s |-> "WhileStmt", condition |-> condition, body |-> body]
Function(name, params, body) ==
    [s |-> "Function", name |-> name, params |-> params, body |-> body]
ReturnStmt(value) == [s |-> "ReturnStmt", value |-> value]

(***************************************************************************)
(* Environment: environment.rs.  heap[e] = [values, enclosing].            *)
(***************************************************************************)
\* Environment::new
Environment_new == [values |-> <<>>, enclosing |-> 0]

\* The heap with one more cell; the new cell's address is Len(heap) + 1.
Alloc(heap, env) == Append(heap, env)

define(heap, e, name, val) ==
    [heap EXCEPT ![e].values = (name :> val) @@ @]

RECURSIVE define_top_level(_, _, _, _)
define_top_level(heap, e, name, value) ==
    IF heap[e].enclosing = 0
    THEN define(heap, e, name, value)
    ELSE define_top_level(heap, heap[e].enclosing, name, value)

\* A lookup that sees the current scope only.
get_current_only(heap, e, name) ==
    IF name \in DOMAIN heap[e].values THEN <<heap[e].values[name]>> ELSE <<>>

\* Option<LiteralValue>: <<>> for None, <<v>> for Some(v).
RECURSIVE get(_, _, _)
get(heap, e, name) ==
    IF name \in DOMAIN heap[e].values THEN <<heap[e].values[name]>>
    ELSE IF heap[e].enclosing # 0 THEN get(heap, heap[e].enclosing, name)
    ELSE <<>>

\* An assignment that, where no scope has the name, binds it in the
\* outermost scope and succeeds.
RECURSIVE assign_or_define(_, _, _, _)
assign_or_define(heap, e, name, value) ==
    IF name \in DOMAIN heap[e].values \/ heap[e].enclosing = 0
    THEN [ok |-> TRUE, heap |-> [heap EXCEPT ![e].values =
                                    (name :> value) @@ @]]
    ELSE assign_or_define(heap, heap[e].enclosing, name, value)

\* assign returns the bool and leaves the heap as it made it.
RECURSIVE assign(_, _, _, _)
assign(heap, e, name, value) ==
    IF name \in DOMAIN heap[e].values
    THEN [ok |-> TRUE, heap |-> [heap EXCEPT ![e].values[name] = value]]
    ELSE IF heap[e].enclosing # 0
    THEN assign(heap, heap[e].enclosing, name, value)
    ELSE [ok |-> FALSE, heap |-> heap]

\* The outermost cell of the chain from e: where define_top_level writes.
RECURSIVE Root(_, _)
Root(heap, e) == IF heap[e].enclosing = 0 THEN e ELSE Root(heap, heap[e].enclosing)

\* The cell of the chain from e that binds name (0: none): where get finds
\* it and where assign writes it.
RECURSIVE ScopeOf(_, _, _)
ScopeOf(heap, e, name) ==
    IF name \in DOMAIN heap[e].values THEN e
    ELSE IF heap[e].enclosing # 0 THEN ScopeOf(heap, heap[e].enclosing, name)
    ELSE 0

(***************************************************************************)
(* The evaluation state.                                                   *)
(*   heap     the environment cells                                        *)
(*   interps  the Interpreter structs alive: [specials, environment];      *)
(*            interps[1] is the one the host created with Interpreter::new *)
(*   out      the lines println! wrote                                     *)
(*   status   "Ok", "Err" (a Result::Err on its way up) or "Panic"         *)
(*   err      the message of the Err, or of the Err a panic came from      *)
(*   now      what SystemTime::now() reads during this run                 *)
(*   log      the history of the run (for the properties only)             *)
(***************************************************************************)
Ret(st, v) == [st |-> st, v |-> v]
Fail(st, msg) == [st |-> [st EXCEPT !.status = "Err", !.err = msg], v |-> Nil]
Panic(st, msg) == [st EXCEPT !.status = "Panic", !.err = msg]
Note(st, event) == [st EXCEPT !.log = Append(@, event)]

\* The identifiers of the modelled programs.
Names == {"a", "b", "c", "d", "f", "g", "h", "i", "n", "p", "q", "r", "t",
          "w", "x", "y", "e", "zz", "bump", "counter", "inc", "rd", "inner",
          "outer", "one", "two", "bad", "clock"}

\* What each name is bound to when looked up from cell e.
View(heap, e, names) == [x \in names |-> get(heap, e, x)]

\* clock_impl: seconds since the epoch, whatever the arguments.
clock_impl(st, args) == Number(st.now)

\* Interpreter::new: the global environment with clock bound, and an empty
\* specials environment.
Interpreter_new ==
    LET specials == define(<<Environment_new>>, 1, "clock",
                       Callable("clock", 0, [kind |-> "clock"]))
    IN [heap |-> Alloc(specials, Environment_new),
        interps |-> <<[specials |-> 2, environment |-> 1]>>]

\* An invocation that runs in the captured environment itself.
for_closure_in_parent(st, parent) ==
    LET h2 == Alloc(st.heap, Environment_new)
    IN [st EXCEPT !.heap = h2,
                  !.interps = Append(@, [specials |-> Len(h2),
                                         environment |-> parent])]

\* An invocation that keeps its return slot where the session's interpreter
\* keeps its own.
for_closure_shared_specials(st, parent) ==
    LET h1 == Alloc(st.heap, [Environment_new EXCEPT !.enclosing = parent])
    IN [st EXCEPT !.heap = h1,
                  !.interps = Append(@, [specials |-> st.interps[1].specials,
                                         environment |-> Len(h1)])]

\* Interpreter::for_closure: a new environment enclosed by parent and a new
\* specials environment; the new Interpreter is the last of st.interps.
for_closure(st, parent) ==
    LET h1 == Alloc(st.heap, [Environment_new EXCEPT !.enclosing = parent])
        h2 == Alloc(h1, Environment_new)
    IN [st EXCEPT !.heap = h2,
                  !.interps = Append(@, [specials |-> Len(h2),
                                         environment |-> Len(h1)])]

\* Interpreter::for_anon
for_anon(st, parent) ==
    LET h1 == Alloc(st.heap, [Environment_new EXCEPT !.enclosing = parent])
        h2 == Alloc(h1, Environment_new)
    IN [st EXCEPT !.heap = h2,
                  !.interps = Append(@, [specials |-> Len(h2),
                                         environment |-> Len(h1)])]

\* A function value that keeps a copy of the cell as it is when the function
\* is defined.
parent_env_copied(st, environment) ==
    [st |-> [st EXCEPT !.heap = Alloc(@, st.heap[environment])],
     env |-> Len(st.heap) + 1]

\* let parent_env = self.environment.clone(): the environment a Function
\* statement or an AnonFunction expression captures is a clone of the Rc,
\* that is, the same cell.
parent_env(st, environment) == [st |-> st, env |-> environment]

\* A call that does not compare the number of arguments with the arity.
arity_unchecked(arguments, arity) == TRUE

\* The arity check of Expr::Call.
arity_matches(arguments, arity) == Len(arguments) = arity

\* The order of the strings the modelled programs compare (String's Ord).
StringOrder == <<"", "a", "a1", "b", "x">>
StringIndex(s) == CHOOSE i \in 1..Len(StringOrder) : StringOrder[i] = s

\* The match of Expr::Binary on (left, operator, right), arm by arm.
\* f64 is modelled by the integers; a quotient is modelled where it is one.
binary(st, left, op, right) ==
    LET N(v) == v.t = "Number"
        S(v) == v.t = "StringValue"
    IN CASE N(left) /\ op = "Plus" /\ N(right) ->
                Ret(st, Number(left.n + right.n))
         [] N(left) /\ op = "Minus" /\ N(right) ->
                Ret(st, Number(left.n - right.n))
         [] N(left) /\ op = "Slash" /\ N(right)
              /\ right.n # 0 /\ left.n % right.n = 0 ->
                Ret(st, Number(left.n \div right.n))
         [] N(left) /\ op = "Less" /\ N(right) ->
                Ret(st, FromBool(left.n < right.n))
         [] N(left) /\ op = "LessEqual" /\ N(right) ->
                Ret(st, FromBool(left.n <= right.n))
         [] N(left) /\ op = "Greater" /\ N(right) ->
                Ret(st, FromBool(left.n > right.n))
         [] N(left) /\ op = "Star" /\ N(right) ->
                Ret(st, Number(left.n * right.n))
         [] S(left) /\ op = "Plus" /\ N(right) ->
                Ret(st, StringValue(left.s \o ToString(right.n)))
         [] N(left) /\ S(right) ->
                Fail(st, "not defined for String and Number")
         [] S(left) /\ op = "Plus" /\ S(right) ->
                Ret(st, StringValue(left.s \o right.s))
         [] op = "BangEqual" -> Ret(st, FromBool(~ValueEq(left, right)))
         [] op = "EqualEqual" -> Ret(st, FromBool(ValueEq(left, right)))
         [] S(left) /\ op = "Greater" /\ S(right) ->
                Ret(st, FromBool(StringIndex(left.s) > StringIndex(right.s)))
         [] S(left) /\ op = "GreaterEqual" /\ S(right) ->
                Ret(st, FromBool(StringIndex(left.s) >= StringIndex(right.s)))
         [] S(left) /\ op = "Less" /\ S(right) ->
                Ret(st, FromBool(StringIndex(left.s) < StringIndex(right.s)))
         [] S(left) /\ op = "LessEqual" /\ S(right) ->
                Ret(st, FromBool(StringIndex(left.s) <= StringIndex(right.s)))
         [] OTHER -> Fail(st, "not implemented for the operands")

\* The match of Expr::Unary on (value, operator).
unary(st, v, op) ==
    CASE v.t = "Number" /\ op = "Minus" -> Ret(st, Number(0 - v.n))
      [] op = "Minus" -> Fail(st, "Minus not implemented")
      [] op = "Bang" ->
            IF is_falsy(v) = Panicked
            THEN Ret(Panic(st, "Cannot use callable as a falsy value"), Nil)
            ELSE Ret(st, is_falsy(v))
      [] OTHER -> Fail(st, "not valid unary operator")

\* impl Display for LiteralValue
Display(v) ==
    CASE v.t = "Callable" -> v.name \o ToString(v.arity)
      [] v.t = "Number" -> ToString(v.n)
      [] v.t = "StringValue" -> v.s
      [] v.t = "True" -> "true"
      [] v.t = "False" -> "false"
      [] v.t = "Nil" -> "nil"

\* A binding of the arguments in the environment the function value holds.
RECURSIVE bind_args_in_closure(_, _, _, _, _)
bind_args_in_closure(st, k, params, args, i) ==
    IF i > Len(args) THEN st
    ELSE IF i > Len(params) THEN Panic(st, "index out of bounds")
    ELSE bind_args_in_closure(
            [st EXCEPT !.heap =
                define(@, st.heap[st.interps[k].environment].enclosing,
                       params[i], args[i])],
            k, params, args, i + 1)

\* The loop of a function value that binds the arguments in the invocation
\* environment; params[i] past the end of params is an index panic.
RECURSIVE bind_args(_, _, _, _, _)
bind_args(st, k, params, args, i) ==
    IF i > Len(args) THEN st
    ELSE IF i > Len(params) THEN Panic(st, "index out of bounds")
    ELSE bind_args(
            [st EXCEPT !.heap = define(@, st.interps[k].environment,
                                       params[i], args[i])],
            k, params, args, i + 1)

\* The `?` of Rust on a Result<LiteralValue, String> inside evaluate: an
\* Err (or a panic unwinding) is what the caller returns; on Ok go on.
Try(r, Go(_)) == IF r.st.status # "Ok" THEN r ELSE Go(r)
\* The same `?` inside interpret, whose result is the state alone.
TryStmt(r, Go(_)) == IF r.st.status # "Ok" THEN r.st ELSE Go(r)
\* let x = ...; then the rest.
Let(x, Go(_)) == Go(x)

RECURSIVE evaluate(_, _, _)
RECURSIVE evaluate_args(_, _, _, _)
RECURSIVE body_loop(_, _, _, _)
RECURSIVE interpret(_, _, _)
RECURSIVE while_loop(_, _, _, _)

\* A call of the function value: clock_impl, or the closure that
\* Stmt::Function (fun_impl) or Expr::AnonFunction built.
call_fun(st, callable, args) ==
    IF callable.fun.kind = "clock" THEN Ret(st, clock_impl(st, args))
    ELSE Let(IF callable.fun.kind = "closure"
             THEN for_closure(st, callable.fun.env)
             ELSE for_anon(st, callable.fun.env),
         LAMBDA s0 :
         Let(Len(s0.interps), LAMBDA k :
         Let(bind_args(
                Note(s0, [ev |-> "invoke", k |-> k,
                          name |-> callable.fun.name,
                          env |-> s0.interps[k].environment,
                          specials |-> s0.interps[k].specials,
                          closure |-> callable.fun.env,
                          defined |-> callable.fun.defenv,
                          heaplen |-> Len(st.heap),
                          signals |-> DOMAIN
                              s0.heap[s0.interps[k].specials].values]),
                k, callable.fun.params, args, 1),
         LAMBDA s2 :
             IF s2.status # "Ok" THEN Ret(s2, Nil)
             ELSE body_loop(
                     Note(s2, [ev |-> "bind", k |-> k,
                               env |-> s2.interps[k].environment,
                               closure |-> callable.fun.env,
                               params |-> callable.fun.params, args |-> args,
                               entry |-> st.heap, heap |-> s2.heap]),
                     k, callable.fun.body, 1))))

\* A function value whose body ran to the end returning false.
implicit_result_false == False

\* What a function value returns when its body ran to the end.
implicit_result == Nil

\* for i in 0..body.len(): interpret body[i], expect() it, and return the
\* value of the return slot of specials once there is one.
body_loop(st, k, body, i) ==
    IF i > Len(body)
    THEN Ret(Note(st, [ev |-> "yield", k |-> k, v |-> implicit_result,
                       slot |-> FALSE]),
             implicit_result)
    ELSE Let(interpret(st, k, <<body[i]>>), LAMBDA s1 :
         Let(get(s1.heap, s1.interps[k].specials, "return"), LAMBDA value :
             IF s1.status = "Panic" THEN Ret(s1, Nil)
             ELSE IF s1.status = "Err"
             THEN Ret(Panic(Note(s1, [ev |-> "raise", k |-> k,
                                      msg |-> s1.err]),
                            s1.err),
                      Nil)
             ELSE IF value # <<>>
             THEN Ret(Note(s1, [ev |-> "yield", k |-> k, v |-> value[1],
                                slot |-> TRUE]),
                      value[1])
             ELSE body_loop(s1, k, body, i + 1)))

\* The loop of Expr::Call over the argument expressions; acc is args.
evaluate_args(st, arguments, environment, acc) ==
    IF arguments = <<>> THEN Ret(st, acc)
    ELSE Try(evaluate(st, Head(arguments), environment), LAMBDA val :
             evaluate_args(val.st, Tail(arguments), environment,
                           Append(acc, val.v)))

\* Expr::evaluate, the Expr::Call arm, once the callee has its value.
evaluate_call(st, e, environment, callable) ==
    IF callable.v.t = "Callable"
    THEN Let(~arity_matches(e.arguments, callable.v.arity), LAMBDA mismatch :
         Let(Note(callable.st,
                  [ev |-> "call", name |-> callable.v.name,
                   arity |-> callable.v.arity, nargs |-> Len(e.arguments),
                   entry |-> IF mismatch THEN <<st.heap>> ELSE <<>>,
                   heap |-> IF mismatch THEN <<callable.st.heap>> ELSE <<>>]),
         LAMBDA s1 :
             IF mismatch THEN Fail(s1, "expected arguments got")
             ELSE Try(evaluate_args(s1, e.arguments, environment, <<>>),
                      LAMBDA args : call_fun(args.st, callable.v, args.v))))
    ELSE Fail(callable.st, "is not callable")

\* What Expr::Logical did, for the history: the value of the first
\* evaluation of left, how often left was evaluated, whether right was, and
\* the values of right and of the whole.
LogicalDone(r, e, lhs_val, nleft, rhs) ==
    Ret(Note(r.st, [ev |-> "logical", op |-> e.operator,
                    lhs |-> lhs_val.v, left_evals |-> nleft, rhs |-> rhs,
                    rv |-> IF rhs /\ r.st.status = "Ok"
                           THEN <<r.v>> ELSE <<>>,
                    v |-> IF r.st.status = "Ok" THEN <<r.v>> ELSE <<>>]),
        r.v)

\* Expr::evaluate, the TokenType::Or arm of Expr::Logical: lhs_val is the
\* value of left, and left is evaluated again for its truth.
logical_or(e, environment, lhs_val) ==
    Try(evaluate(lhs_val.st, e.left, environment), LAMBDA again :
    Let(is_truthy(again.v), LAMBDA lhs_true :
        IF lhs_true = Panicked
        THEN Ret(Panic(again.st, "Cannot use callable as a truthy value"),
                 Nil)
        ELSE IF lhs_true = True
        THEN LogicalDone(Ret(again.st, lhs_val.v), e, lhs_val, 2, FALSE)
        ELSE LogicalDone(evaluate(again.st, e.right, environment),
                         e, lhs_val, 2, TRUE)))

\* Expr::evaluate, the TokenType::And arm of Expr::Logical.
logical_and(e, environment, lhs_val) ==
    Let(is_truthy(lhs_val.v), LAMBDA lhs_true :
        IF lhs_true = Panicked
        THEN Ret(Panic(lhs_val.st, "Cannot use callable as a truthy value"),
                 Nil)
        ELSE IF lhs_true = False
        THEN LogicalDone(Ret(lhs_val.st, lhs_true), e, lhs_val, 1, FALSE)
        ELSE LogicalDone(evaluate(lhs_val.st, e.right, environment),
                         e, lhs_val, 1, TRUE))

\* Expr::evaluate, the Expr::Assign arm, once the value is there.
evaluate_assign(e, environment, new_value) ==
    Let(assign(new_value.st.heap, environment, e.name, new_value.v),
        LAMBDA a :
        IF a.ok
        THEN Ret(Note([new_value.st EXCEPT !.heap = a.heap],
                      [ev |-> "write", env |-> environment,
                       name |-> e.name, v |-> new_value.v,
                       scope |-> ScopeOf(new_value.st.heap, environment,
                                         e.name)]),
                 new_value.v)
        ELSE Fail(new_value.st, "has not been declared"))

\* A read of a variable that takes the value out of the variable.
evaluate_variable_taking(st, e, environment) ==
    Let(get(st.heap, environment, e.name), LAMBDA r :
        IF r # <<>>
        THEN Ret([st EXCEPT !.heap =
                     assign(@, environment, e.name, Nil).heap],
                 r[1])
        ELSE Fail(st, "has not been declared"))

\* Expr::evaluate, the Expr::Variable arm.
evaluate_variable(st, e, environment) ==
    Let(get(st.heap, environment, e.name), LAMBDA r :
        IF r # <<>>
        THEN Ret(Note(st, [ev |-> "read", env |-> environment,
                           name |-> e.name, v |-> r[1],
                           scope |-> ScopeOf(st.heap, environment, e.name)]),
                 r[1])
        ELSE Fail(st, "has not been declared"))

\* Expr::evaluate, the Expr::AnonFunction arm.
evaluate_anon(st, e, environment) ==
    Let(parent_env(st, environment), LAMBDA c :
        Ret(c.st, Callable("anon_function", Len(e.arguments),
                    [kind |-> "anon", name |-> "anon_function",
                     params |-> e.arguments, body |-> e.body,
                     env |-> c.env, defenv |-> environment])))

\* What Expr::Binary and Expr::Unary did, for the history: the operand
\* values, the operator, and the value if there is one.
BinaryDone(r, left, op, right) ==
    [r EXCEPT !.st = Note(@, [ev |-> "binary", left |-> left, op |-> op,
                              right |-> right,
                              v |-> IF r.st.status = "Ok"
                                    THEN <<r.v>> ELSE <<>>])]
UnaryDone(r, op, right) ==
    [r EXCEPT !.st = Note(@, [ev |-> "unary", op |-> op, right |-> right,
                              v |-> IF r.st.status = "Ok"
                                    THEN <<r.v>> ELSE <<>>])]

\* What a statement that tests a condition found: the condition's value
\* and whether the guarded statement is to run.
Tested(st, stmt, value) ==
    Note(st, [ev |-> "test", s |-> stmt.s, stmt |-> stmt, v |-> value,
              truth |-> is_truthy(value) = True])

\* Expr::evaluate(&self, environment) -> Result<LiteralValue, String>
evaluate(st, e, environment) ==
    CASE e.e = "AnonFunction" -> evaluate_anon(st, e, environment)
      [] e.e \in {"Call", "Assign", "Grouping", "Unary", "Logical",
                  "Binary"} ->
            \* every one of these arms starts by evaluating a first operand
            Try(evaluate(st, CASE e.e = "Call" -> e.callee
                               [] e.e = "Assign" -> e.value
                               [] e.e = "Grouping" -> e.expression
                               [] e.e = "Unary" -> e.right
                               [] OTHER -> e.left,
                         environment),
                LAMBDA first :
                CASE e.e = "Call" -> evaluate_call(st, e, environment, first)
                  [] e.e = "Assign" -> evaluate_assign(e, environment, first)
                  [] e.e = "Grouping" -> first
                  [] e.e = "Unary" ->
                        UnaryDone(unary(first.st, first.v, e.operator),
                                  e.operator, first.v)
                  [] e.e = "Logical" ->
                        IF e.operator = "Or"
                        THEN logical_or(e, environment, first)
                        ELSE IF e.operator = "And"
                        THEN logical_and(e, environment, first)
                        ELSE Fail(first.st,
                                  "Invalid token in logical expression")
                  [] e.e = "Binary" ->
                        Try(evaluate(first.st, e.right, environment),
                            LAMBDA right :
                            BinaryDone(binary(right.st, first.v, e.operator,
                                              right.v),
                                       first.v, e.operator, right.v)))
      [] e.e = "Variable" -> evaluate_variable(st, e, environment)
      [] e.e = "Literal" -> Ret(st, e.value)

\* A block that puts the environment back only when its statements ended
\* in Ok.
restore_env_on_ok(st, self, old_env) ==
    IF st.status = "Ok"
    THEN [st EXCEPT !.interps[self].environment = old_env]
    ELSE st

\* Stmt::Block puts self.environment back after the block's statements
\* ran, before it looks at their result.
restore_env(st, self, old_env) ==
    [st EXCEPT !.interps[self].environment = old_env]

\* A block whose environment has no enclosing one.
block_env_detached(heap, old_env) ==
    [heap |-> Alloc(heap, Environment_new), env |-> Len(heap) + 1]

\* A block that runs its statements in the environment it found.
block_env_shared(heap, old_env) == [heap |-> heap, env |-> old_env]

\* Stmt::Block makes new_env, an Environment enclosed by the current one,
\* the current environment: the heap with it, and its address.
block_env(heap, old_env) ==
    [heap |-> Alloc(heap, [Environment_new EXCEPT !.enclosing = old_env]),
     env |-> Len(heap) + 1]

\* Interpreter::interpret, the Stmt::Block arm.
interpret_block(st, self, stmt) ==
    Let(st.interps[self].environment, LAMBDA old_env :
    Let(block_env(st.heap, old_env), LAMBDA new :
    Let(interpret([st EXCEPT !.heap = new.heap,
                             !.interps[self].environment = new.env],
                  self, stmt.statements),
        LAMBDA block_result :
        IF block_result.status = "Panic" THEN block_result
        ELSE Let(restore_env(block_result, self, old_env), LAMBDA s2 :
             Note(s2, [ev |-> "block", k |-> self, outer |-> old_env,
                       inner |-> new.env, cells |-> Len(st.heap),
                       from |-> Len(st.log),
                       before |-> View(st.heap, old_env, Names),
                       after |-> View(s2.heap, old_env, Names),
                       ok |-> s2.status = "Ok",
                       restored |-> s2.interps[self].environment])))))

\* The while of Stmt::WhileStmt; flag is the condition's value.
while_loop(st, self, stmt, flag) ==
    IF is_truthy(flag) = Panicked
    THEN Panic(st, "Cannot use callable as a truthy value")
    ELSE IF is_truthy(flag) = True
    THEN Let(interpret(Tested(st, stmt, flag), self, <<stmt.body>>),
             LAMBDA s1 :
             IF s1.status # "Ok" THEN s1
             ELSE TryStmt(evaluate(s1, stmt.condition,
                                   s1.interps[self].environment),
                          LAMBDA next :
                          while_loop(next.st, self, stmt, next.v)))
    ELSE Tested(st, stmt, flag)

\* Interpreter::interpret, the Stmt::ReturnStmt arm with the value there.
interpret_return(self, stmt, eval) ==
    Note([eval.st EXCEPT !.heap =
              define_top_level(@, eval.st.interps[self].specials,
                               "return", eval.v)],
         [ev |-> "return", k |-> self, v |-> eval.v,
          hasval |-> stmt.value # <<>>,
          cell |-> Root(eval.st.heap, eval.st.interps[self].specials)])

\* Interpreter::interpret, the Stmt::Function arm.
interpret_function(st, self, stmt) ==
    Let(parent_env(st, st.interps[self].environment), LAMBDA c :
    Let(Callable(stmt.name, Len(stmt.params),
            [kind |-> "closure", name |-> stmt.name,
             params |-> stmt.params, body |-> stmt.body,
             env |-> c.env, defenv |-> st.interps[self].environment]),
        LAMBDA callable :
        Note([c.st EXCEPT !.heap =
                 define(@, st.interps[self].environment, stmt.name,
                        callable)],
             [ev |-> "define", env |-> st.interps[self].environment,
              name |-> stmt.name, v |-> callable,
              scope |-> st.interps[self].environment])))

\* Interpreter::interpret, the Stmt::IfStmt arm with the predicate's value.
interpret_if(self, stmt, truth_val) ==
    IF is_truthy(truth_val.v) = Panicked
    THEN Panic(truth_val.st, "Cannot use callable as a truthy value")
    ELSE IF is_truthy(truth_val.v) = True \/ stmt.else # <<>>
    THEN interpret(Tested(truth_val.st, stmt, truth_val.v), self,
                   IF is_truthy(truth_val.v) = True THEN <<stmt.then>>
                   ELSE <<stmt.else[1]>>)
    ELSE Tested(truth_val.st, stmt, truth_val.v)

\* One turn of the for loop of Interpreter::interpret: the match on stmt.
interpret_stmt(st, self, stmt) ==
    CASE stmt.s = "Function" -> interpret_function(st, self, stmt)
      [] stmt.s = "Block" -> interpret_block(st, self, stmt)
      [] stmt.s = "ReturnStmt" /\ stmt.value = <<>> ->
            interpret_return(self, stmt, Ret(st, Nil))
      [] OTHER ->
            \* every other arm starts by evaluating its expression
            TryStmt(evaluate(st, CASE stmt.s = "ReturnStmt" -> stmt.value[1]
                                   [] stmt.s = "WhileStmt" -> stmt.condition
                                   [] stmt.s = "IfStmt" -> stmt.predicate
                                   [] stmt.s = "Var" -> stmt.initializer
                                   [] OTHER -> stmt.expression,
                             st.interps[self].environment),
                LAMBDA value :
                CASE stmt.s = "ReturnStmt" ->
                        interpret_return(self, stmt, value)
                  [] stmt.s = "WhileStmt" ->
                        while_loop(value.st, self, stmt, value.v)
                  [] stmt.s = "IfStmt" -> interpret_if(self, stmt, value)
                  [] stmt.s = "Expression" -> value.st
                  [] stmt.s = "Print" ->
                        [value.st EXCEPT !.out = Append(@, Display(value.v))]
                  [] stmt.s = "Var" ->
                        Note([value.st EXCEPT !.heap =
                                 define(@, st.interps[self].environment,
                                        stmt.name, value.v)],
                             [ev |-> "define",
                              env |-> st.interps[self].environment,
                              name |-> stmt.name, v |-> value.v,
                              scope |-> st.interps[self].environment]))

\* Interpreter::interpret(&mut self, stmts) -> Result<(), String>
interpret(st, self, stmts) ==
    IF stmts = <<>> THEN st
    ELSE Let(interpret_stmt(Note(st, [ev |-> "stmt", k |-> self,
                                      s |-> Head(stmts).s,
                                      stmt |-> Head(stmts)]),
                            self, Head(stmts)),
             LAMBDA s1 :
             IF s1.status # "Ok" THEN s1
             ELSE interpret(s1, self, Tail(stmts)))

(***************************************************************************)
(* The programs the read-eval loop is given, as the statement lists the    *)
(* parser builds for them (a `for` does not occur; it is sugar).           *)
(***************************************************************************)
Num(x) == Literal(Number(x))
CallStmt(name, arguments) == Expression(Call(Variable(name), arguments))
PrintCall(name, arguments) == PrintStmt(Call(Variable(name), arguments))

\* fn f() { { return 1; print 2; return 3; } }  print f();
ReturnInBlock ==
    << Function("f", <<>>,
         << Block(<< ReturnStmt(<<Num(1)>>), PrintStmt(Num(2)),
                     ReturnStmt(<<Num(3)>>) >>) >>),
       PrintCall("f", <<>>) >>

\* fn w() { var i = 0; while (i < 2) { i = i + 1; return i; } print 9; }
\* print w();
ReturnInWhile ==
    << Function("w", <<>>,
         << Var("i", Num(0)),
            WhileStmt(Binary(Variable("i"), "Less", Num(2)),
               Block(<< Expression(Assign("i",
                           Binary(Variable("i"), "Plus", Num(1)))),
                        ReturnStmt(<<Variable("i")>>) >>)),
            PrintStmt(Num(9)) >>),
       PrintCall("w", <<>>) >>

\* fn c(x) { if (x < 1) return 0; return x; print 9; }  print c(0); print c(2);
ReturnInIf ==
    << Function("c", <<"x">>,
         << IfStmt(Binary(Variable("x"), "Less", Num(1)),
                   ReturnStmt(<<Num(0)>>), <<>>),
            ReturnStmt(<<Variable("x")>>),
            PrintStmt(Num(9)) >>),
       PrintCall("c", <<Num(0)>>),
       PrintCall("c", <<Num(2)>>) >>

\* fn counter() { var n = 0; fn bump() { n = n + 1; return n; } return bump; }
\* var c = counter(); var d = counter(); print c(); print c(); print d();
Counter ==
    << Function("counter", <<>>,
         << Var("n", Num(0)),
            Function("bump", <<>>,
               << Expression(Assign("n",
                     Binary(Variable("n"), "Plus", Num(1)))),
                  ReturnStmt(<<Variable("n")>>) >>),
            ReturnStmt(<<Variable("bump")>>) >>),
       Var("c", Call(Variable("counter"), <<>>)),
       Var("d", Call(Variable("counter"), <<>>)),
       PrintCall("c", <<>>), PrintCall("c", <<>>), PrintCall("d", <<>>) >>

\* var a = 0; fn inc() { a = a + 1; } fn rd() { return a; }
\* inc(); print rd(); print a;
SharedScope ==
    << Var("a", Num(0)),
       Function("inc", <<>>,
         << Expression(Assign("a", Binary(Variable("a"), "Plus", Num(1)))) >>),
       Function("rd", <<>>, << ReturnStmt(<<Variable("a")>>) >>),
       CallStmt("inc", <<>>), PrintCall("rd", <<>>),
       PrintStmt(Variable("a")) >>

\* var a = 1; var b = 1; { var a = 2; print a; b = 3; { var b = 4; a = 5; } }
\* print a; print b;
Shadow ==
    << Var("a", Num(1)), Var("b", Num(1)),
       Block(<< Var("a", Num(2)), PrintStmt(Variable("a")),
                Expression(Assign("b", Num(3))),
                Block(<< Var("b", Num(4)),
                         Expression(Assign("a", Num(5))) >>) >>),
       PrintStmt(Variable("a")), PrintStmt(Variable("b")) >>

\* { var b = 1; { print zz; } print b; }
ErrorInBlock ==
    << Block(<< Var("b", Num(1)),
                Block(<< PrintStmt(Variable("zz")) >>),
                PrintStmt(Variable("b")) >>) >>

\* fn inner() { return 2; } fn outer() { inner(); print 7; return 3; }
\* print outer();
Nested ==
    << Function("inner", <<>>, << ReturnStmt(<<Num(2)>>) >>),
       Function("outer", <<>>,
         << CallStmt("inner", <<>>), PrintStmt(Num(7)),
            ReturnStmt(<<Num(3)>>) >>),
       PrintCall("outer", <<>>) >>

\* return 5; fn e() {} fn r() { return; } fn p() { print 1; }
\* print e(); print r(); print p();
NoReturn ==
    << ReturnStmt(<<Num(5)>>),
       Function("e", <<>>, <<>>),
       Function("r", <<>>, << ReturnStmt(<<>>) >>),
       Function("p", <<>>, << PrintStmt(Num(1)) >>),
       PrintCall("e", <<>>), PrintCall("r", <<>>), PrintCall("p", <<>>) >>

\* var a = 0; fn two(p, q) { print p; return q; } print two(1, 2); two(a = 5);
ArityArgs ==
    << Var("a", Num(0)),
       Function("two", <<"p", "q">>,
         << PrintStmt(Variable("p")), ReturnStmt(<<Variable("q")>>) >>),
       PrintCall("two", <<Num(1), Num(2)>>),
       CallStmt("two", <<Assign("a", Num(5))>>) >>

\* fn one(p) { print p; } one(zz, 1);
ArityUndeclared ==
    << Function("one", <<"p">>, << PrintStmt(Variable("p")) >>),
       CallStmt("one", <<Variable("zz"), Num(1)>>) >>

\* fn one(p) { print p; } var h = nil; (h = one)();
ArityCallee ==
    << Function("one", <<"p">>, << PrintStmt(Variable("p")) >>),
       Var("h", Literal(Nil)),
       Expression(Call(Grouping(Assign("h", Variable("one"))), <<>>)) >>

\* var x = false; var y = 0; (x = !x) or (y = 1); print y;
OrTwice ==
    << Var("x", Literal(False)), Var("y", Num(0)),
       Expression(Logical(
           Grouping(Assign("x", Unary("Bang", Variable("x")))), "Or",
           Grouping(Assign("y", Num(1))))),
       PrintStmt(Variable("y")) >>

\* var y = 0; print (0 or "x"); print (1 or 2); print (0 and 1);
\* print (1 and 2); nil and (y = 2); 1 or (y = 3); print y;
Logic ==
    << Var("y", Num(0)),
       PrintStmt(Grouping(Logical(Num(0), "Or", Literal(StringValue("x"))))),
       PrintStmt(Grouping(Logical(Num(1), "Or", Num(2)))),
       PrintStmt(Grouping(Logical(Num(0), "And", Num(1)))),
       PrintStmt(Grouping(Logical(Num(1), "And", Num(2)))),
       Expression(Logical(Literal(Nil), "And",
                          Grouping(Assign("y", Num(2))))),
       Expression(Logical(Num(1), "Or", Grouping(Assign("y", Num(3))))),
       PrintStmt(Variable("y")) >>

\* var p = 1; fn f(p) { p = p + 1; print p; } f(5);
\* { var p = 2; f(7); print p; } print p;
ParameterShadows ==
    << Var("p", Num(1)),
       Function("f", <<"p">>,
         << Expression(Assign("p", Binary(Variable("p"), "Plus", Num(1)))),
            PrintStmt(Variable("p")) >>),
       CallStmt("f", <<Num(5)>>),
       Block(<< Var("p", Num(2)), CallStmt("f", <<Num(7)>>),
                PrintStmt(Variable("p")) >>),
       PrintStmt(Variable("p")) >>

\* var g = fn (p) { return p + 1; }; print g(1); var t = clock(); print t;
AnonClock ==
    << Var("g", AnonFunction(<<"p">>,
          << ReturnStmt(<<Binary(Variable("p"), "Plus", Num(1))>>) >>)),
       PrintCall("g", <<Num(1)>>),
       Var("t", Call(Variable("clock"), <<>>)),
       PrintStmt(Variable("t")) >>

\* fn q() {} if (q) print 1;
TruthyCallable ==
    << Function("q", <<>>, <<>>),
       IfStmt(Variable("q"), PrintStmt(Num(1)), <<>>) >>

\* fn bad() { print zz; } bad();
ErrorInBody ==
    << Function("bad", <<>>, << PrintStmt(Variable("zz")) >>),
       CallStmt("bad", <<>>) >>

Programs ==
    << ReturnInBlock, ReturnInWhile, ReturnInIf, Counter, SharedScope,
       Shadow, ErrorInBlock, Nested, NoReturn, ArityArgs, ArityUndeclared,
       ArityCallee, OrTwice, Logic, AnonClock, TruthyCallable, ErrorInBody,
       ParameterShadows >>

(***************************************************************************)
(* The lexer: lexer.rs.  A source is the sequence of its bytes, each a     *)
(* string of one character; positions count from 0 as in the code, so the  *)
(* byte at position i is source[i + 1].  A token is the record Token; its  *)
(* literal is an Option: <<>> or <<value>>.                                *)
(***************************************************************************)
Digits == <<"0", "1", "2", "3", "4", "5", "6", "7", "8", "9">>
Alphas == {
    "a", "b", "c", "d", "e", "f", "g", "h", "i", "j", "k", "l", "m",
    "n", "o", "p", "q", "r", "s", "t", "u", "v", "w", "x", "y", "z",
    "A", "B", "C", "D", "E", "F", "G", "H", "I", "J", "K", "L", "M",
    "N", "O", "P", "Q", "R", "S", "T", "U", "V", "W", "X", "Y", "Z",
    "_" }

is_digit(ch) == \E i \in 1..Len(Digits) : Digits[i] = ch
is_alpha(ch) == ch \in Alphas
is_alphanum(ch) == is_alpha(ch) \/ is_digit(ch)

KEYOWRDS ==
    [and |-> "And", class |-> "Class", while |-> "While", else |-> "Else",
     false |-> "False", for |-> "For", fn |-> "Fn", if |-> "If",
     nil |-> "Nil", or |-> "Or", print |-> "Print", return |-> "Return",
     super |-> "Super", this |-> "This", true |-> "True", var |-> "Var"]

Token(token_t, lexme, literal, line_number) ==
    [token_t |-> token_t, lexme |-> lexme, literal |-> literal,
     line_number |-> line_number]

\* lexer::LiteralValue
FloatValue(x) == [l |-> "FloatValue", n |-> x]
StringLiteral(x) == [l |-> "StringValue", s |-> x]

\* The String of a sequence of bytes.
RECURSIVE Text(_)
Text(bytes) == IF bytes = <<>> THEN "" ELSE Head(bytes) \o Text(Tail(bytes))

\* The number a sequence of decimal digits writes.
RECURSIVE Decimal(_)
Decimal(digits) ==
    IF digits = <<>> THEN 0
    ELSE 10 * Decimal(SubSeq(digits, 1, Len(digits) - 1))
            + ((CHOOSE i \in 1..Len(Digits) :
                    Digits[i] = digits[Len(digits)]) - 1)

\* substring.parse::<f64>() of digits with an optional `.digits`: the
\* integer where the fraction is zero; any other f64 is kept as its whole
\* part and the digits of its fraction.
parse_f64(whole, fraction) ==
    IF Decimal(fraction) = 0 THEN Decimal(whole)
    ELSE [whole |-> Decimal(whole), fraction |-> Text(fraction)]

Lexer_new(source) ==
    [source |-> source, tokens |-> <<>>, start |-> 0, current |-> 0,
     line |-> 1]

Lexer_is_end(lx) == lx.current >= Len(lx.source)

\* The char at the current position; "" stands for '\0'.
Lexer_peek(lx) ==
    IF Lexer_is_end(lx) THEN "" ELSE lx.source[lx.current + 1]

peek_next(lx) ==
    IF lx.current + 1 >= Len(lx.source) THEN ""
    ELSE lx.source[lx.current + 2]

\* advance: the lexer moved on; the char it returns is the one Lexer_peek
\* saw before.
Lexer_advance(lx) == [lx EXCEPT !.current = @ + 1]

char_match(lx, ch) ==
    IF Lexer_is_end(lx) \/ lx.source[lx.current + 1] # ch
    THEN [lx |-> lx, matched |-> FALSE]
    ELSE [lx |-> Lexer_advance(lx), matched |-> TRUE]

\* &self.source[self.start..self.current]
Lexeme(lx) == SubSeq(lx.source, lx.start + 1, lx.current)

push_token(lx, token_t, literal) ==
    [lx EXCEPT !.tokens = Append(@, Token(token_t, Text(Lexeme(lx)), literal,
                                          lx.line))]

add_token(lx, token_t) == push_token(lx, token_t, <<>>)

\* The loop of a `//` comment: up to the end of the line or of the source.
RECURSIVE skip_comment(_)
skip_comment(lx) ==
    IF Lexer_peek(lx) = "\n" \/ Lexer_is_end(lx) THEN lx
    ELSE skip_comment(Lexer_advance(lx))

\* The loops of number and identifier: advance while the char is of a class.
RECURSIVE skip_digits(_)
skip_digits(lx) ==
    IF is_digit(Lexer_peek(lx)) THEN skip_digits(Lexer_advance(lx)) ELSE lx
RECURSIVE skip_alphanum(_)
skip_alphanum(lx) ==
    IF is_alphanum(Lexer_peek(lx)) THEN skip_alphanum(Lexer_advance(lx))
    ELSE lx

\* Lexer::identifier
identifier(lx) ==
    LET l2 == skip_alphanum(lx)
        keyword == Text(Lexeme(l2))
    IN IF keyword \in DOMAIN KEYOWRDS THEN add_token(l2, KEYOWRDS[keyword])
       ELSE add_token(l2, "Identifier")

\* Lexer::number; the parse of digits with an optional fraction never fails.
number(lx) ==
    LET l2 == skip_digits(lx)
        l3 == IF Lexer_peek(l2) = "." /\ is_digit(peek_next(l2))
              THEN skip_digits(Lexer_advance(l2)) ELSE l2
        whole == SubSeq(lx.source, lx.start + 1, l2.current)
        fraction == SubSeq(lx.source, l2.current + 2, l3.current)
    IN push_token(l3, "Number", <<FloatValue(parse_f64(whole, fraction))>>)

\* The loop of Lexer::string: up to the closing quote or the end.
RECURSIVE skip_string(_)
skip_string(lx) ==
    IF Lexer_peek(lx) # "\"" /\ ~Lexer_is_end(lx)
    THEN skip_string(Lexer_advance(
            IF Lexer_peek(lx) = "\n" THEN [lx EXCEPT !.line = @ + 1] ELSE lx))
    ELSE lx

\* Lexer::string -> Result<(), String>: the lexer and the Err if any.
string(lx) ==
    LET l2 == skip_string(lx)
        l3 == Lexer_advance(l2)
    IN IF Lexer_is_end(l2)
       THEN [lx |-> l2, err |-> <<"Unterminated string">>]
       ELSE [lx |-> push_token(l3, "String",
                       <<StringLiteral(Text(SubSeq(lx.source, lx.start + 2,
                                                   l3.current - 1)))>>),
             err |-> <<>>]

\* The token type of a char that alone is a token.
SingleChar ==
    [c \in {"(", ")", "{", "}", ",", ".", "-", "+", "*", ";"} |->
        CASE c = "(" -> "LeftParen" [] c = ")" -> "RightParen"
          [] c = "{" -> "LeftBrace" [] c = "}" -> "RightBrace"
          [] c = "," -> "Comma" [] c = "." -> "Dot"
          [] c = "-" -> "Minus" [] c = "+" -> "Plus"
          [] c = "*" -> "Star" [] c = ";" -> "Semicolon"]

\* The token types of a char that is a token alone and with a `=` after it.
OneOrTwo ==
    [c \in {"!", "=", "<", ">"} |->
        CASE c = "!" -> <<"Bang", "BangEqual">>
          [] c = "=" -> <<"Equal", "EqualEqual">>
          [] c = "<" -> <<"Less", "LessEqual">>
          [] c = ">" -> <<"Greater", "GreaterEqual">>]

\* Lexer::scan_token -> Result<(), String>
scan_token(lx) ==
    LET c == Lexer_peek(lx)
        l1 == Lexer_advance(lx)
        Ok(l) == [lx |-> l, err |-> <<>>]
    IN CASE c \in DOMAIN SingleChar -> Ok(add_token(l1, SingleChar[c]))
         [] c = "/" ->
                IF char_match(l1, "/").matched
                THEN Ok(skip_comment(char_match(l1, "/").lx))
                ELSE Ok(add_token(l1, "Slash"))
         [] c \in DOMAIN OneOrTwo ->
                IF char_match(l1, "=").matched
                THEN Ok(add_token(char_match(l1, "=").lx, OneOrTwo[c][2]))
                ELSE Ok(add_token(l1, OneOrTwo[c][1]))
         [] c \in {" ", "\r", "\t"} -> Ok(l1)
         [] c = "\n" -> Ok([l1 EXCEPT !.line = @ + 1])
         [] c = "\"" -> string(l1)
         [] is_digit(c) -> Ok(number(l1))
         [] is_alpha(c) -> Ok(identifier(l1))
         [] OTHER ->
                [lx |-> l1,
                 err |-> <<"Unrecognized char at line " \o ToString(l1.line)
                              \o ": '" \o c \o "'">>]

\* The errors joined, each with a newline after it.
RECURSIVE joined(_)
joined(errors) ==
    IF errors = <<>> THEN ""
    ELSE Head(errors) \o "\n" \o joined(Tail(errors))

\* A loop of scan_tokens that stops at the first error.
RECURSIVE scan_loop_first_error(_, _)
scan_loop_first_error(lx, errors) ==
    IF Lexer_is_end(lx) \/ errors # <<>> THEN [lx |-> lx, errors |-> errors]
    ELSE LET r == scan_token([lx EXCEPT !.start = lx.current])
         IN scan_loop_first_error(r.lx, errors \o r.err)

\* The while loop of Lexer::scan_tokens.
RECURSIVE scan_loop(_, _)
scan_loop(lx, errors) ==
    IF Lexer_is_end(lx) THEN [lx |-> lx, errors |-> errors]
    ELSE LET r == scan_token([lx EXCEPT !.start = lx.current])
         IN scan_loop(r.lx, errors \o r.err)

\* A scan_tokens whose Eof token is at the line of the last token.
scan_tokens_eof_at_token(lx) ==
    LET r == scan_loop(lx, <<>>)
        tokens == Append(r.lx.tokens,
                         Token("Eof", "", <<>>,
                               IF r.lx.tokens = <<>> THEN 1
                               ELSE r.lx.tokens[Len(r.lx.tokens)].line_number))
    IN IF r.errors # <<>>
       THEN [ok |-> FALSE, err |-> joined(r.errors), tokens |-> tokens]
       ELSE [ok |-> TRUE, err |-> "", tokens |-> tokens]

\* Lexer::scan_tokens -> Result<Rc<Vec<Token>>, String>
scan_tokens(lx) ==
    LET r == scan_loop(lx, <<>>)
        tokens == Append(r.lx.tokens, Token("Eof", "", <<>>, r.lx.line))
    IN IF r.errors # <<>>
       THEN [ok |-> FALSE, err |-> joined(r.errors), tokens |-> tokens]
       ELSE [ok |-> TRUE, err |-> "", tokens |-> tokens]

(***************************************************************************)
(* The parser: parser.rs.  A parser is [tokens, current], current counted  *)
(* from 0.  A Result<T, String> of a parser method is the parser after the *)
(* call with ok, the value v and the message err.                          *)
(***************************************************************************)
Parser_new(tokens) == [tokens |-> tokens, current |-> 0]

POk(p, v) == [p |-> p, ok |-> TRUE, v |-> v, err |-> ""]
PErr(p, msg) == [p |-> p, ok |-> FALSE, v |-> <<>>, err |-> msg]
\* The `?` of Rust on the Result of a parser method.
PTry(r, Go(_)) == IF ~r.ok THEN r ELSE Go(r)

Parser_peek(p) == p.tokens[p.current + 1]
previous(p) == p.tokens[p.current]
Parser_is_end(p) == Parser_peek(p).token_t = "Eof"
Parser_advance(p) ==
    IF ~Parser_is_end(p) THEN [p EXCEPT !.current = @ + 1] ELSE p
check(p, ty) == Parser_peek(p).token_t = ty

match_token(p, ty) ==
    IF Parser_is_end(p) THEN [p |-> p, matched |-> FALSE]
    ELSE IF Parser_peek(p).token_t = ty
         THEN [p |-> Parser_advance(p), matched |-> TRUE]
         ELSE [p |-> p, matched |-> FALSE]

RECURSIVE match_tokens(_, _)
match_tokens(p, types) ==
    IF types = <<>> THEN [p |-> p, matched |-> FALSE]
    ELSE IF match_token(p, Head(types)).matched
         THEN match_token(p, Head(types))
         ELSE match_tokens(p, Tail(types))

consume(p, token_t, msg) ==
    IF Parser_peek(p).token_t = token_t
    THEN POk(Parser_advance(p), previous(Parser_advance(p)))
    ELSE PErr(p, msg)

\* impl From<Token> for LiteralValue, with unwrap_as_f64 and
\* unwrap_as_string of the token's literal.
LiteralValue_from(token) ==
    CASE token.token_t = "Number" -> Number(token.literal[1].n)
      [] token.token_t = "String" -> StringValue(token.literal[1].s)
      [] token.token_t = "False" -> False
      [] token.token_t = "True" -> True
      [] token.token_t = "Nil" -> Nil
      [] OTHER -> Panicked

\* A synchronize that does not stop after a `;`.
RECURSIVE synchronize_past_semicolon(_)
synchronize_past_semicolon(p) ==
    IF Parser_is_end(p) THEN p
    ELSE IF Parser_peek(p).token_t \in
              {"Class", "Fn", "Var", "For", "If", "While", "Print", "Return"}
         THEN p
    ELSE synchronize_past_semicolon(Parser_advance(p))

\* The while loop of Parser::synchronize.
RECURSIVE synchronize_loop(_)
synchronize_loop(p) ==
    IF Parser_is_end(p) THEN p
    ELSE IF previous(p).token_t = "Semicolon" THEN p
    ELSE IF Parser_peek(p).token_t \in
              {"Class", "Fn", "Var", "For", "If", "While", "Print", "Return"}
         THEN p
    ELSE synchronize_loop(Parser_advance(p))

RECURSIVE declaration(_)
RECURSIVE statement(_)
RECURSIVE block_loop(_, _)
RECURSIVE expression(_)
RECURSIVE assignment(_)
RECURSIVE Parser_unary(_)
RECURSIVE arguments_loop(_, _)
RECURSIVE arguments_turns(_, _)

\* The loop over the parameters of function and function_expression: the
\* tokens consumed so far are params.
\* A loop of the parser at work: the parser, what was collected so far
\* and, once the loop is left, the Result it is left with.
Looping(p, v) == [p |-> p, v |-> v, done |-> FALSE]
Left(r) == [r |-> r, done |-> TRUE]

\* One turn of the loop over the parameters.
params_turn(p, params, msg, line) ==
    IF Len(params) >= 255
    THEN Left(PErr(p, line \o " " \o ToString(Parser_peek(p).line_number)
                           \o ": Cant have more than 255 arguments"))
    ELSE Let(consume(p, "Identifier", msg), LAMBDA param :
         IF ~param.ok THEN Left(param)
         ELSE IF ~match_token(param.p, "Comma").matched
         THEN Left(POk(param.p, Append(params, param.v.lexme)))
         ELSE Looping(match_token(param.p, "Comma").p,
                      Append(params, param.v.lexme)))

\* The turns of the loop one after the other until the loop is left; the
\* turns are counted in halves, which keeps the evaluation shallow: 2^n
\* turns at most, and no loop here has more than 256.
RECURSIVE params_turns(_, _, _, _)
params_turns(l, msg, line, n) ==
    IF l.done THEN l
    ELSE IF n = 0 THEN params_turn(l.p, l.v, msg, line)
    ELSE params_turns(params_turns(l, msg, line, n - 1), msg, line, n - 1)

params_loop(p, params, msg, line) ==
    params_turns(Looping(p, params), msg, line, 9).r

params_list(p, msg, line) ==
    IF ~check(p, "RightParen") THEN params_loop(p, <<>>, msg, line)
    ELSE POk(p, <<>>)

\* Parser::block_statement
block_statement(p) ==
    PTry(block_loop(p, <<>>), LAMBDA statements :
    PTry(consume(statements.p, "RightBrace", "Expected '}' after a block"),
         LAMBDA brace : POk(brace.p, Block(statements.v))))

block_loop(p, statements) ==
    IF ~check(p, "RightBrace") /\ ~Parser_is_end(p)
    THEN PTry(declaration(p), LAMBDA decl :
              block_loop(decl.p, Append(statements, decl.v)))
    ELSE POk(p, statements)

\* Parser::function, kind being FunctionKind::Function
function(p) ==
    PTry(consume(p, "Identifier", "Expected Function name"), LAMBDA name :
    PTry(consume(name.p, "LeftParen", "Expected '(' after Function name"),
         LAMBDA paren :
    PTry(params_list(paren.p, "Expected paramter name", "Line"), LAMBDA params :
    PTry(consume(params.p, "RightParen", "Expected ')' after parameters."),
         LAMBDA close :
    PTry(consume(close.p, "LeftBrace", "Expected '{' Function body."),
         LAMBDA brace :
    PTry(block_statement(brace.p), LAMBDA body :
         POk(body.p, Function(name.v.lexme, params.v, body.v.statements))))))))

\* Parser::function_expression
function_expression(p) ==
    PTry(consume(p, "LeftParen", "Expected '(' after anonymous function"),
         LAMBDA paren :
    PTry(params_list(paren.p, "Expected parameter name", "line"), LAMBDA parameters :
    PTry(consume(parameters.p, "RightParen",
                 "Expected ')' after anonymous function paramters"),
         LAMBDA close :
    PTry(consume(close.p, "LeftBrace",
                 "Expected '{' after anonymous function decleration"),
         LAMBDA brace :
    PTry(block_statement(brace.p), LAMBDA body :
         POk(body.p, AnonFunction(parameters.v, body.v.statements)))))))

\* Parser::var_declaration
var_declaration(p) ==
    PTry(consume(p, "Identifier", "Expected variable name"), LAMBDA token :
    PTry(IF match_token(token.p, "Equal").matched
         THEN expression(match_token(token.p, "Equal").p)
         ELSE POk(token.p, Literal(Nil)),
         LAMBDA initializer :
    PTry(consume(initializer.p, "Semicolon",
                 "Expected a ';' after variable name"),
         LAMBDA semi : POk(semi.p, Var(token.v.lexme, initializer.v)))))

\* Parser::print_statement
print_statement(p) ==
    PTry(expression(p), LAMBDA value :
    PTry(consume(value.p, "Semicolon", "Expected ';' after value"),
         LAMBDA semi : POk(semi.p, PrintStmt(value.v))))

\* Parser::expression_statement
expression_statement(p) ==
    PTry(expression(p), LAMBDA expr :
    PTry(consume(expr.p, "Semicolon", "Expected ';' after expression"),
         LAMBDA semi : POk(semi.p, Expression(expr.v))))

\* Parser::return_statement
return_statement(p) ==
    PTry(IF ~check(p, "Semicolon")
         THEN PTry(expression(p), LAMBDA e : POk(e.p, <<e.v>>))
         ELSE POk(p, <<>>),
         LAMBDA value :
    PTry(consume(value.p, "Semicolon", "Expected ';' after return value"),
         LAMBDA semi : POk(semi.p, ReturnStmt(value.v))))

\* Parser::while_statement
while_statement(p) ==
    PTry(consume(p, "LeftParen", "Expected '(' after while"), LAMBDA paren :
    PTry(expression(paren.p), LAMBDA condition :
    PTry(consume(condition.p, "RightParen", "Expected ')' after condition"),
         LAMBDA close :
    PTry(statement(close.p), LAMBDA body :
         POk(body.p, WhileStmt(condition.v, body.v))))))

\* Parser::if_statement
if_statement(p) ==
    PTry(consume(p, "LeftParen", "Expected '(' after if-statement"),
         LAMBDA paren :
    PTry(expression(paren.p), LAMBDA predicate :
    PTry(consume(predicate.p, "RightParen", "Expected ')' after if-predicate"),
         LAMBDA close :
    PTry(statement(close.p), LAMBDA then :
    PTry(IF match_token(then.p, "Else").matched
         THEN PTry(statement(match_token(then.p, "Else").p),
                   LAMBDA stm : POk(stm.p, <<stm.v>>))
         ELSE POk(then.p, <<>>),
         LAMBDA else :
         POk(else.p, IfStmt(predicate.v, then.v, else.v)))))))

\* A desugaring of `for` that runs the increment before the body.
for_increment_first(initializer, condition, increment, body) ==
    Let(IF increment # <<>>
        THEN Block(<<Expression(increment[1]), body>>) ELSE body,
        LAMBDA stepped :
    Let(WhileStmt(IF condition = <<>> THEN Literal(True) ELSE condition[1],
                  stepped),
        LAMBDA loop :
        IF initializer # <<>> THEN Block(<<initializer[1], loop>>)
        ELSE loop))

\* The end of Parser::for_statement: the statement built of the parsed
\* initializer, condition and increment (Options) and the body.
for_desugared(initializer, condition, increment, body) ==
    Let(IF increment # <<>>
        THEN Block(<<body, Expression(increment[1])>>) ELSE body,
        LAMBDA stepped :
    Let(WhileStmt(IF condition = <<>> THEN Literal(True) ELSE condition[1],
                  stepped),
        LAMBDA loop :
        IF initializer # <<>> THEN Block(<<initializer[1], loop>>)
        ELSE loop))

\* Parser::for_statement
for_statement(p) ==
    PTry(consume(p, "LeftParen", "Expected '(' after for"), LAMBDA paren :
    PTry(IF match_token(paren.p, "Semicolon").matched
         THEN POk(match_token(paren.p, "Semicolon").p, <<>>)
         ELSE IF match_token(paren.p, "Var").matched
         THEN PTry(var_declaration(match_token(paren.p, "Var").p),
                   LAMBDA var_decl : POk(var_decl.p, <<var_decl.v>>))
         ELSE PTry(expression_statement(paren.p),
                   LAMBDA expr : POk(expr.p, <<expr.v>>)),
         LAMBDA initializer :
    PTry(IF ~check(initializer.p, "Semicolon")
         THEN PTry(expression(initializer.p),
                   LAMBDA expr : POk(expr.p, <<expr.v>>))
         ELSE POk(initializer.p, <<>>),
         LAMBDA condition :
    PTry(consume(condition.p, "Semicolon",
                 "Expected ';' after loop condition"),
         LAMBDA semi :
    PTry(IF ~check(semi.p, "RightParen")
         THEN PTry(expression(semi.p), LAMBDA expr : POk(expr.p, <<expr.v>>))
         ELSE POk(semi.p, <<>>),
         LAMBDA increment :
    PTry(consume(increment.p, "RightParen", "Expected ')' after for clauses"),
         LAMBDA close :
    PTry(statement(close.p), LAMBDA body :
         POk(body.p, for_desugared(initializer.v, condition.v, increment.v,
                                   body.v)))))))))

\* Parser::statement
statement(p) ==
    IF match_token(p, "Print").matched
    THEN print_statement(match_token(p, "Print").p)
    ELSE IF match_token(p, "LeftBrace").matched
    THEN block_statement(match_token(p, "LeftBrace").p)
    ELSE IF match_token(p, "If").matched
    THEN if_statement(match_token(p, "If").p)
    ELSE IF match_token(p, "While").matched
    THEN while_statement(match_token(p, "While").p)
    ELSE IF match_token(p, "For").matched
    THEN for_statement(match_token(p, "For").p)
    ELSE IF match_token(p, "Return").matched
    THEN return_statement(match_token(p, "Return").p)
    ELSE expression_statement(p)

\* Parser::declaration
declaration(p) ==
    IF match_token(p, "Var").matched
    THEN var_declaration(match_token(p, "Var").p)
    ELSE IF match_token(p, "Fn").matched
    THEN function(match_token(p, "Fn").p)
    ELSE statement(p)

\* Parser::primary
primary(p) ==
    Let(Parser_peek(p), LAMBDA token :
    CASE token.token_t = "LeftParen" ->
            PTry(expression(Parser_advance(p)), LAMBDA expr :
            PTry(consume(expr.p, "RightParen", "Expected ')'"),
                 LAMBDA close : POk(close.p, Grouping(expr.v))))
      [] token.token_t \in {"False", "True", "Nil", "Number", "String"} ->
            POk(Parser_advance(p), Literal(LiteralValue_from(token)))
      [] token.token_t = "Fn" -> function_expression(Parser_advance(p))
      [] token.token_t = "Identifier" ->
            POk(Parser_advance(p),
                Variable(previous(Parser_advance(p)).lexme))
      [] OTHER -> PErr(p, "Expected expression"))

\* Parser::finish_call; the loop over the arguments is arguments_loop.
finish_call(p, callee) ==
    PTry(IF ~check(p, "RightParen") THEN arguments_loop(p, <<>>)
         ELSE POk(p, <<>>),
         LAMBDA arguments :
    PTry(consume(arguments.p, "RightParen", "Expected ')' after arguments."),
         LAMBDA paren : POk(paren.p, Call(callee, arguments.v))))

\* One turn of the loop over the arguments.
arguments_turn(p, arguments) ==
    Let(expression(p), LAMBDA arg :
        IF ~arg.ok THEN Left(arg)
        ELSE IF Len(arguments) + 1 >= 255
        THEN Left(PErr(arg.p,
                       "Line " \o ToString(Parser_peek(arg.p).line_number)
                           \o ": Cant have more than 255 arguments"))
        ELSE IF ~match_token(arg.p, "Comma").matched
        THEN Left(POk(arg.p, Append(arguments, arg.v)))
        ELSE Looping(match_token(arg.p, "Comma").p,
                     Append(arguments, arg.v)))

\* The turns of the loop over the arguments, counted as those of the loop
\* over the parameters.
arguments_turns(l, n) ==
    IF l.done THEN l
    ELSE IF n = 0 THEN arguments_turn(l.p, l.v)
    ELSE arguments_turns(arguments_turns(l, n - 1), n - 1)

arguments_loop(p, arguments) ==
    arguments_turns(Looping(p, arguments), 9).r

\* The loop of Parser::call: every `(` after the callee is a call of it.
RECURSIVE call_loop(_)
call_loop(expr) ==
    IF match_token(expr.p, "LeftParen").matched
    THEN PTry(finish_call(match_token(expr.p, "LeftParen").p, expr.v),
              call_loop)
    ELSE expr

\* Parser::call
Parser_call(p) == PTry(primary(p), call_loop)

\* Parser::unary
Parser_unary(p) ==
    IF match_tokens(p, <<"Bang", "Minus">>).matched
    THEN Let(match_tokens(p, <<"Bang", "Minus">>).p, LAMBDA p1 :
         PTry(Parser_unary(p1), LAMBDA rhs :
              POk(rhs.p, Unary(previous(p1).token_t, rhs.v))))
    ELSE Parser_call(p)

\* The loops of factor, term, comparison, equality, and and or: left is
\* the expression so far with the operator after it, nothing at the start;
\* the operand that follows is parsed and, while one of the operators is
\* next, it is the left operand of a further one.
\* Parser::factor
RECURSIVE factor_loop(_, _)
factor_loop(p, left) ==
    PTry(Parser_unary(p), LAMBDA rhs :
    Let(IF left = <<>> THEN rhs.v ELSE Binary(left[1], left[2], rhs.v),
        LAMBDA expr :
        IF match_tokens(rhs.p, <<"Slash", "Star">>).matched
        THEN Let(match_tokens(rhs.p, <<"Slash", "Star">>).p, LAMBDA p1 :
                 factor_loop(p1, <<expr, previous(p1).token_t>>))
        ELSE POk(rhs.p, expr)))

factor(p) == factor_loop(p, <<>>)

\* A term that associates to the right.
RECURSIVE term_right(_, _)
term_right(p, left) ==
    PTry(factor(p), LAMBDA lhs :
         IF match_tokens(lhs.p, <<"Minus", "Plus">>).matched
         THEN Let(match_tokens(lhs.p, <<"Minus", "Plus">>).p, LAMBDA p1 :
              PTry(term_right(p1, left), LAMBDA rhs :
                   POk(rhs.p, Binary(lhs.v, previous(p1).token_t, rhs.v))))
         ELSE lhs)

\* Parser::term
RECURSIVE term_loop(_, _)
term_loop(p, left) ==
    PTry(factor(p), LAMBDA rhs :
    Let(IF left = <<>> THEN rhs.v ELSE Binary(left[1], left[2], rhs.v),
        LAMBDA expr :
        IF match_tokens(rhs.p, <<"Minus", "Plus">>).matched
        THEN Let(match_tokens(rhs.p, <<"Minus", "Plus">>).p, LAMBDA p1 :
                 term_loop(p1, <<expr, previous(p1).token_t>>))
        ELSE POk(rhs.p, expr)))

term(p) == term_loop(p, <<>>)

ComparisonTokens == <<"Greater", "GreaterEqual", "Less", "LessEqual">>

\* Parser::comparison
RECURSIVE comparison_loop(_, _)
comparison_loop(p, left) ==
    PTry(term(p), LAMBDA rhs :
    Let(IF left = <<>> THEN rhs.v ELSE Binary(left[1], left[2], rhs.v),
        LAMBDA expr :
        IF match_tokens(rhs.p, ComparisonTokens).matched
        THEN Let(match_tokens(rhs.p, ComparisonTokens).p, LAMBDA p1 :
                 comparison_loop(p1, <<expr, previous(p1).token_t>>))
        ELSE POk(rhs.p, expr)))

comparison(p) == comparison_loop(p, <<>>)

\* Parser::equality
RECURSIVE equality_loop(_, _)
equality_loop(p, left) ==
    PTry(comparison(p), LAMBDA rhs :
    Let(IF left = <<>> THEN rhs.v ELSE Binary(left[1], left[2], rhs.v),
        LAMBDA expr :
        IF match_tokens(rhs.p, <<"BangEqual", "EqualEqual">>).matched
        THEN Let(match_tokens(rhs.p, <<"BangEqual", "EqualEqual">>).p, LAMBDA p1 :
                 equality_loop(p1, <<expr, previous(p1).token_t>>))
        ELSE POk(rhs.p, expr)))

equality(p) == equality_loop(p, <<>>)

\* Parser::and
RECURSIVE and_loop(_, _)
and_loop(p, left) ==
    PTry(equality(p), LAMBDA rhs :
    Let(IF left = <<>> THEN rhs.v ELSE Logical(left[1], left[2], rhs.v),
        LAMBDA expr :
        IF match_token(rhs.p, "And").matched
        THEN Let(match_token(rhs.p, "And").p, LAMBDA p1 :
                 and_loop(p1, <<expr, previous(p1).token_t>>))
        ELSE POk(rhs.p, expr)))

Parser_and(p) == and_loop(p, <<>>)

\* Parser::or
RECURSIVE or_loop(_, _)
or_loop(p, left) ==
    PTry(Parser_and(p), LAMBDA rhs :
    Let(IF left = <<>> THEN rhs.v ELSE Logical(left[1], left[2], rhs.v),
        LAMBDA expr :
        IF match_token(rhs.p, "Or").matched
        THEN Let(match_token(rhs.p, "Or").p, LAMBDA p1 :
                 or_loop(p1, <<expr, previous(p1).token_t>>))
        ELSE POk(rhs.p, expr)))

Parser_or(p) == or_loop(p, <<>>)

\* Parser::assignment
assignment(p) ==
    PTry(Parser_or(p), LAMBDA expr :
         IF match_token(expr.p, "Equal").matched
         THEN PTry(assignment(match_token(expr.p, "Equal").p), LAMBDA value :
                   IF expr.v.e = "Variable"
                   THEN POk(value.p, Assign(expr.v.name, value.v))
                   ELSE PErr(value.p, "Invalid assignment target."))
         ELSE expr)

\* Parser::expression
expression(p) == assignment(p)

\* errs.join("\n")
RECURSIVE join(_)
join(errs) ==
    IF Len(errs) = 1 THEN Head(errs)
    ELSE Head(errs) \o "\n" \o join(Tail(errs))

\* A parse that does not synchronize after an error.
synchronize_not(p) == p

\* Parser::synchronize
synchronize(p) == synchronize_loop(Parser_advance(p))

\* One turn of the while loop of Parser::parse, the parser not at the end:
\* the Result of declaration and the parser at the end of the turn, after
\* synchronize where declaration returned an Err.
parse_turn(p) ==
    Let(declaration(p), LAMBDA stmt :
        [stmt |-> stmt,
         next |-> IF stmt.ok THEN stmt.p ELSE synchronize(stmt.p)])

\* The while loop of Parser::parse.
RECURSIVE parse_loop(_, _, _)
parse_loop(p, stmts, errs) ==
    IF Parser_is_end(p) THEN [stmts |-> stmts, errs |-> errs]
    ELSE Let(parse_turn(p), LAMBDA turn :
             IF turn.stmt.ok
             THEN parse_loop(turn.next, Append(stmts, turn.stmt.v), errs)
             ELSE parse_loop(turn.next, stmts, Append(errs, turn.stmt.err)))

\* The end of Parser::parse: the Result of the statements and the errors.
parse_result(stmts, errs) ==
    IF errs = <<>> THEN [ok |-> TRUE, v |-> stmts, err |-> ""]
    ELSE [ok |-> FALSE, v |-> <<>>, err |-> join(errs)]

\* Parser::parse -> Result<Vec<Box<Stmt>>, String>
parse(p) ==
    Let(parse_loop(p, <<>>, <<>>), LAMBDA r : parse_result(r.stmts, r.errs))

(***************************************************************************)
(* The host: main.rs run_prompt, one Interpreter for the whole session.    *)
(***************************************************************************)
VARIABLES
    heap,     \* the environment cells
    interp,   \* the session's Interpreter: [specials, environment]
    out,      \* what the last line made the host write to stdout
    status,   \* how the last line ended: "Ok", "Err" or "Panic"
    err,      \* the message of the last line's error
    buffer,   \* the last line read: its place in Programs (0: none yet)
    nlines,   \* how many lines were read
    parser,   \* a Parser at work: its cursor and the locals of parse
    exit_code, \* the exit status of the process, none while it runs
    log       \* the history of the last line's evaluation

vars ==
    <<heap, interp, out, status, err, buffer, nlines, parser, exit_code, log>>

\* The cursor of Parser::new and the locals of parse before its loop.
parse_entry == [current |-> 0, stmts |-> <<>>, errs |-> <<>>, done |-> FALSE]

\* run from `interpreter.interpret(stmts)?` on: the statements the parser
\* returned, interpreted.
run_parsed(st, stmts) == interpret(st, 1, stmts)

\* run, were the `?` on the results of the lexer and the parser not there:
\* the statements parsed are interpreted and the error is returned after.
run_unchecked(st, contents) ==
    Let(scan_tokens(Lexer_new(contents)), LAMBDA tokens :
    Let(Parser_new(tokens.tokens), LAMBDA prs :
    Let(run_parsed(Note(Note(st, [ev |-> "scan_tokens", ok |-> tokens.ok]),
                        [ev |-> "parse", ok |-> parse(prs).ok]),
                   parse_loop(prs, <<>>, <<>>).stmts),
        LAMBDA s1 :
        IF s1.status = "Ok" /\ ~tokens.ok
        THEN [s1 EXCEPT !.status = "Err", !.err = tokens.err]
        ELSE IF s1.status = "Ok" /\ ~parse(prs).ok
        THEN [s1 EXCEPT !.status = "Err", !.err = parse(prs).err]
        ELSE s1)))

\* run(interpreter, contents) -> Result<(), String>: the source is lexed,
\* parsed and interpreted, and the first Err is returned.  The history
\* notes what the lexer and the parser returned.
run(st, contents) ==
    Let(scan_tokens(Lexer_new(contents)), LAMBDA tokens :
    Let(Note(st, [ev |-> "scan_tokens", ok |-> tokens.ok]), LAMBDA s1 :
        IF ~tokens.ok THEN [s1 EXCEPT !.status = "Err", !.err = tokens.err]
        ELSE Let(parse(Parser_new(tokens.tokens)), LAMBDA stmts :
             Let(Note(s1, [ev |-> "parse", ok |-> stmts.ok]), LAMBDA s2 :
                 IF ~stmts.ok
                 THEN [s2 EXCEPT !.status = "Err", !.err = stmts.err]
                 ELSE run_parsed(s2, stmts.v)))))

Init ==
    /\ heap = Interpreter_new.heap
    /\ interp = Interpreter_new.interps[1]
    /\ out = <<>>
    /\ status = "Ok"
    /\ err = ""
    /\ buffer = 0
    /\ nlines = 0
    /\ parser = parse_entry
    /\ exit_code = <<>>
    /\ log = <<>>

\* The interpreter of the session as a turn of the loop hands it to run,
\* with nothing printed yet; now is what the clock shows during the turn.
Session(now) ==
    [heap |-> heap, interps |-> <<interp>>, out |-> <<>>, log |-> <<>>,
     status |-> "Ok", err |-> "", now |-> now]

\* One turn of the loop of run_prompt, r being what run returned for the
\* line in the buffer: the message of an Err is printed.  A panic ends the
\* process.  The session ends after `lines` lines.
Turn(r, lines) ==
    /\ status # "Panic"
    /\ nlines < lines
    /\ heap' = r.heap
    /\ interp' = r.interps[1]
    /\ out' = IF r.status = "Err" THEN Append(r.out, r.err) ELSE r.out
    /\ status' = r.status
    /\ err' = r.err
    /\ log' = r.log
    /\ nlines' = nlines + 1
    /\ UNCHANGED <<parser, exit_code>>

\* A turn of the loop that reads a line for which the parser returns the
\* i-th of Programs.
ReadEval(i, now) ==
    Turn(run_parsed(Session(now), Programs[i]), MaxLines) /\ buffer' = i

Next == \E i \in 1..Len(Programs), now \in 1..MaxClock : ReadEval(i, now)

Spec == Init /\ [][Next]_vars

(***************************************************************************)
(* The operators on values, one at a time: sessions whose lines apply one  *)
(* operator to operands of every variant.                                  *)
(***************************************************************************)
\* Expressions for the operands: a value of every variant of LiteralValue
\* (the function value is what the global `clock` is bound to).
Operands ==
    << Num(0), Num(1), Literal(StringValue("")), Literal(StringValue("a")),
       Literal(True), Literal(False), Literal(Nil), Variable("clock") >>

\* The token types of the comparison and equality operators.
Comparisons == {"Less", "LessEqual", "Greater", "GreaterEqual"}
Equalities == {"EqualEqual", "BangEqual"}

\* print l op r;
BinaryLine(l, op, r) == << PrintStmt(Binary(l, op, r)) >>

\* if (v) print "t"; else print "f";  print !v;  print !!v;
\* var t = v; while (t) t = nil;
TruthLine(v) ==
    << IfStmt(v, PrintStmt(Literal(StringValue("t"))),
              <<PrintStmt(Literal(StringValue("f")))>>),
       PrintStmt(Unary("Bang", v)),
       PrintStmt(Unary("Bang", Unary("Bang", v))),
       Var("t", v),
       WhileStmt(Variable("t"), Expression(Assign("t", Literal(Nil)))) >>

\* A turn of the loop that reads a comparison of two operands.
ReadBinary(i, op, j) ==
    Turn(run_parsed(Session(1), BinaryLine(Operands[i], op, Operands[j])),
         MaxProbes)
       /\ buffer' = 0

\* A turn of the loop that reads the tests of the truth of an operand.
ReadTruth(i) ==
    Turn(run_parsed(Session(1), TruthLine(Operands[i])), MaxProbes)
       /\ buffer' = 0

NextOps ==
    \/ \E i \in 1..Len(Operands), j \in 1..Len(Operands),
          op \in Comparisons \cup Equalities : ReadBinary(i, op, j)
    \/ \E i \in 1..Len(Operands) : ReadTruth(i)

SpecOps == Init /\ [][NextOps]_vars

(***************************************************************************)
(* The methods of Environment, one at a time, on a chain of scopes as      *)
(* blocks nested in the global scope make it.                              *)
(***************************************************************************)
\* The names and the value the methods are called with.
EnvNames == {"a", "b"}
NewValue == Number(1)

\* The heap after Interpreter::new and, for i in 1..Len(declared), a block
\* entered in the scope before it that declared the names declared[i] (the
\* global scope declared declared[1]), every one with the value 0.
RECURSIVE Scopes(_)
Scopes(declared) ==
    LET n == Len(declared)
        outer == IF n = 1 THEN Interpreter_new.heap
                 ELSE block_env(Scopes(SubSeq(declared, 1, n - 1)),
                                IF n = 2 THEN 1 ELSE n).heap
        here == IF n = 1 THEN 1 ELSE Len(outer)
    IN [outer EXCEPT ![here].values =
           [x \in declared[n] |-> Number(0)] @@ @]

InitEnv ==
    /\ \E declared \in [1..(MaxDepth + 1) -> SUBSET EnvNames] :
          heap = Scopes(declared)
    /\ interp = Interpreter_new.interps[1]
    /\ out = <<>>
    /\ status = "Ok"
    /\ err = ""
    /\ buffer = 0
    /\ nlines = 0
    /\ parser = parse_entry
    /\ exit_code = <<>>
    /\ log = <<>>

\* environment.borrow_mut().define(name, value)
CallDefine(e, name) ==
    /\ Len(log) < MaxCalls
    /\ heap' = define(heap, e, name, NewValue)
    /\ log' = Append(log, [ev |-> "define", env |-> e, name |-> name,
                           v |-> NewValue, before |-> heap, after |-> heap'])
    /\ UNCHANGED <<interp, out, status, err, buffer, nlines, parser, exit_code>>

\* environment.borrow_mut().assign(name, value)
CallAssign(e, name) ==
    /\ Len(log) < MaxCalls
    /\ heap' = assign(heap, e, name, NewValue).heap
    /\ log' = Append(log, [ev |-> "assign", env |-> e, name |-> name,
                           v |-> NewValue, before |-> heap, after |-> heap',
                           ok |-> assign(heap, e, name, NewValue).ok])
    /\ UNCHANGED <<interp, out, status, err, buffer, nlines, parser, exit_code>>

\* environment.borrow().get(name)
CallGet(e, name) ==
    /\ Len(log) < MaxCalls
    /\ log' = Append(log, [ev |-> "get", env |-> e, name |-> name,
                           r |-> get(heap, e, name), before |-> heap])
    /\ UNCHANGED <<heap, interp, out, status, err, buffer, nlines, parser, exit_code>>

\* The scopes: every cell but the specials of the interpreter.
ScopeCells == (1..Len(heap)) \ {interp.specials}

NextEnv ==
    \/ \E e \in ScopeCells, name \in EnvNames : CallDefine(e, name)
    \/ \E e \in ScopeCells, name \in EnvNames : CallAssign(e, name)
    \/ \E e \in ScopeCells, name \in EnvNames : CallGet(e, name)

SpecEnv == InitEnv /\ [][NextEnv]_vars

(***************************************************************************)
(* The whole of run: sessions whose lines are source text, each the        *)
(* sequence of its characters with the newline read_line leaves at its     *)
(* end.                                                                    *)
(***************************************************************************)
\* The lines a session has at most.
MaxRuns == 2

\* var a = 1;
Declares ==
    << "v", "a", "r", " ", "a", " ", "=", " ", "1", ";", "\n" >>

\* print a;
Prints ==
    << "p", "r", "i", "n", "t", " ", "a", ";", "\n" >>

\* print 1; @
LexErrorAfter ==
    << "p", "r", "i", "n", "t", " ", "1", ";", " ", "@", "\n" >>

\* print 1; var ;
ParseErrorAfter ==
    << "p", "r", "i", "n", "t", " ", "1", ";", " ", "v", "a", "r", " ", ";",
       "\n" >>

\* var ; var a = 2; print a;
ParseErrorBefore ==
    << "v", "a", "r", " ", ";", " ", "v", "a", "r", " ", "a", " ", "=", " ",
       "2", ";", " ", "p", "r", "i", "n", "t", " ", "a", ";", "\n" >>

\* var b = "x
Unterminated ==
    << "v", "a", "r", " ", "b", " ", "=", " ", "\"", "x", "\n" >>

\* a = 2; print a
NoSemicolon ==
    << "a", " ", "=", " ", "2", ";", " ", "p", "r", "i", "n", "t", " ", "a",
       "\n" >>

Lines ==
    << Declares, Prints, LexErrorAfter, ParseErrorAfter,
       ParseErrorBefore, Unterminated, NoSemicolon >>

\* A line with a `for`: the text before it, the initializer clause with
\* its `;`, the condition, the increment, the body and the text after it.
ForLoop(before, init, cond, incr, body, after) ==
    [before |-> before, init |-> init, cond |-> cond, incr |-> incr,
     body |-> body, after |-> after]

\* before for (init cond; incr) body after
ForText(f) ==
    f.before \o << "f", "o", "r", " ", "(" >> \o f.init
        \o (IF f.cond = <<>> THEN <<>> ELSE << " " >> \o f.cond) \o << ";" >>
        \o (IF f.incr = <<>> THEN <<>> ELSE << " " >> \o f.incr)
        \o << ")", " " >> \o f.body \o f.after \o << "\n" >>

\* for (var i = 0; i < 2; i = i + 1) print i;
Counts ==
    ForLoop(<<>>,
            << "v", "a", "r", " ", "i", " ", "=", " ", "0", ";" >>,
            << "i", " ", "<", " ", "2" >>,
            << "i", " ", "=", " ", "i", " ", "+", " ", "1" >>,
            << "p", "r", "i", "n", "t", " ", "i", ";" >>,
            <<>>)

\* for (var i = 0; i < 1; i = i + 1) print i; print i * 1;
LoopVariableAfter ==
    ForLoop(<<>>,
            << "v", "a", "r", " ", "i", " ", "=", " ", "0", ";" >>,
            << "i", " ", "<", " ", "1" >>,
            << "i", " ", "=", " ", "i", " ", "+", " ", "1" >>,
            << "p", "r", "i", "n", "t", " ", "i", ";" >>,
            << " ", "p", "r", "i", "n", "t", " ", "i", " ", "*", " ", "1",
               ";" >>)

\* var n = 0; for (; n < 2; n = n + 1) print n;
NoInitializer ==
    ForLoop(<< "v", "a", "r", " ", "n", " ", "=", " ", "0", ";", " " >>,
            << ";" >>,
            << "n", " ", "<", " ", "2" >>,
            << "n", " ", "=", " ", "n", " ", "+", " ", "1" >>,
            << "p", "r", "i", "n", "t", " ", "n", ";" >>,
            <<>>)

\* for (;;) { print 1; print zz; }
NoClauses ==
    ForLoop(<<>>,
            << ";" >>,
            <<>>,
            <<>>,
            << "{", " ", "p", "r", "i", "n", "t", " ", "1", ";", " ", "p",
               "r", "i", "n", "t", " ", "z", "z", ";", " ", "}" >>,
            <<>>)

\* for (var x = 0;; x = x + 1) if (x) print zz;
NoCondition ==
    ForLoop(<<>>,
            << "v", "a", "r", " ", "x", " ", "=", " ", "0", ";" >>,
            <<>>,
            << "x", " ", "=", " ", "x", " ", "+", " ", "1" >>,
            << "i", "f", " ", "(", "x", ")", " ", "p", "r", "i", "n", "t",
               " ", "z", "z", ";" >>,
            <<>>)

\* for (var y = 0; y < 1;) y = y + 1;
NoIncrement ==
    ForLoop(<<>>,
            << "v", "a", "r", " ", "y", " ", "=", " ", "0", ";" >>,
            << "y", " ", "<", " ", "1" >>,
            <<>>,
            << "y", " ", "=", " ", "y", " ", "+", " ", "1", ";" >>,
            <<>>)

\* for (var n = 0; n < 0; n = n + 1) print n;
NoIteration ==
    ForLoop(<<>>,
            << "v", "a", "r", " ", "n", " ", "=", " ", "0", ";" >>,
            << "n", " ", "<", " ", "0" >>,
            << "n", " ", "=", " ", "n", " ", "+", " ", "1" >>,
            << "p", "r", "i", "n", "t", " ", "n", ";" >>,
            <<>>)

\* var i = 7; for (var i = 0; i < 2; i = i + 1) print i; print i * 1;
Shadowing ==
    ForLoop(<< "v", "a", "r", " ", "i", " ", "=", " ", "7", ";", " " >>,
            << "v", "a", "r", " ", "i", " ", "=", " ", "0", ";" >>,
            << "i", " ", "<", " ", "2" >>,
            << "i", " ", "=", " ", "i", " ", "+", " ", "1" >>,
            << "p", "r", "i", "n", "t", " ", "i", ";" >>,
            << " ", "p", "r", "i", "n", "t", " ", "i", " ", "*", " ", "1",
               ";" >>)

\* var i = 5; for (i = 0; i < 1; i = i + 1) print i; print i * 1;
AssignInitializer ==
    ForLoop(<< "v", "a", "r", " ", "i", " ", "=", " ", "5", ";", " " >>,
            << "i", " ", "=", " ", "0", ";" >>,
            << "i", " ", "<", " ", "1" >>,
            << "i", " ", "=", " ", "i", " ", "+", " ", "1" >>,
            << "p", "r", "i", "n", "t", " ", "i", ";" >>,
            << " ", "p", "r", "i", "n", "t", " ", "i", " ", "*", " ", "1",
               ";" >>)

ForLoops ==
    << Counts, LoopVariableAfter, NoInitializer, NoClauses,
       NoCondition, NoIncrement, NoIteration, Shadowing,
       AssignInitializer >>

\* A turn of the loop that reads the i-th of Lines.
ReadLine(i) == Turn(run(Session(1), Lines[i]), MaxRuns) /\ buffer' = Lines[i]

\* A turn of the loop that reads the i-th of ForLoops.
ReadFor(i) ==
    Turn(run(Session(1), ForText(ForLoops[i])), MaxRuns)
       /\ buffer' = ForText(ForLoops[i])

NextRun ==
    \/ \E i \in 1..Len(Lines) : ReadLine(i)
    \/ \E i \in 1..Len(ForLoops) : ReadFor(i)

SpecRun == Init /\ [][NextRun]_vars

(***************************************************************************)
(* The lexer alone: scan_tokens of a new Lexer on every source of at most  *)
(* MaxSource characters of LexChars.  The source is in the buffer.         *)
(***************************************************************************)
MaxSource == 3
LexChars == {"a", "1", " ", "\n", "\"", "@", "/", ";"}

\* The sequences of at most n elements of S.
RECURSIVE SeqsUpTo(_, _)
SeqsUpTo(S, n) ==
    IF n = 0 THEN {<<>>}
    ELSE SeqsUpTo(S, n - 1)
            \cup {Append(q, x) : q \in {r \in SeqsUpTo(S, n - 1) :
                                           Len(r) = n - 1}, x \in S}

InitLex ==
    /\ buffer \in SeqsUpTo(LexChars, MaxSource)
    /\ heap = Interpreter_new.heap
    /\ interp = Interpreter_new.interps[1]
    /\ out = <<>>
    /\ status = "Ok"
    /\ err = ""
    /\ nlines = 0
    /\ parser = parse_entry
    /\ exit_code = <<>>
    /\ log = <<>>

\* Lexer::new(contents).scan_tokens(): the Result is in status and err, the
\* tokens of the lexer in the history.
CallScanTokens ==
    /\ log = <<>>
    /\ LET r == scan_tokens(Lexer_new(buffer))
       IN /\ status' = IF r.ok THEN "Ok" ELSE "Err"
          /\ err' = r.err
          /\ log' = <<[ev |-> "scan_tokens", ok |-> r.ok, tokens |-> r.tokens]>>
    /\ UNCHANGED <<heap, interp, out, buffer, nlines, parser, exit_code>>

NextLex == CallScanTokens

SpecLex == InitLex /\ [][NextLex]_vars

(***************************************************************************)
(* The parser alone (SpecParse): parse of a new Parser on token vectors    *)
(* that end with Eof, one turn of its loop at a time.  The vector is in    *)
(* the buffer, the cursor and the locals of parse in parser.               *)
(***************************************************************************)
MaxTokens == 4

\* The lexemes of the tokens the vectors are made of.
Lexemes ==
    "Var" :> "var" @@ "Print" :> "print" @@ "Identifier" :> "a" @@
    "Number" :> "1" @@ "Equal" :> "=" @@ "Semicolon" :> ";" @@
    "Plus" :> "+" @@ "Minus" :> "-" @@ "Star" :> "*" @@ "Slash" :> "/" @@
    "Or" :> "or" @@ "And" :> "and" @@ "EqualEqual" :> "==" @@
    "BangEqual" :> "!=" @@ "Less" :> "<" @@ "LessEqual" :> "<=" @@
    "Greater" :> ">" @@ "GreaterEqual" :> ">=" @@ "Bang" :> "!" @@
    "LeftParen" :> "(" @@ "RightParen" :> ")" @@ "Fn" :> "fn" @@
    "Comma" :> "," @@ "LeftBrace" :> "{" @@ "RightBrace" :> "}" @@
    "Eof" :> ""

\* The token of a type as the lexer makes it on line 1.
TokenOf(token_t) ==
    Token(token_t, Lexemes[token_t],
          IF token_t = "Number" THEN <<FloatValue(1)>> ELSE <<>>, 1)
\* An identifier token of a name.
Ident(name) == Token("Identifier", name, <<>>, 1)

\* The vector of the tokens of the types, with the Eof after them.
Vector(types) ==
    [i \in 1..(Len(types) + 1) |->
        IF i > Len(types) THEN TokenOf("Eof") ELSE TokenOf(types[i])]

\* The token types of the vectors of statements.
StatementTokens ==
    {"Var", "Print", "Identifier", "Number", "Equal", "Semicolon", "Eof"}

\* The operators of the binary levels and of assignment.
BinaryTokens ==
    {"Or", "And", "EqualEqual", "BangEqual", "Less", "LessEqual", "Greater",
     "GreaterEqual", "Plus", "Minus", "Star", "Slash"}

\* The vectors of expression statements over the operands a, b and c with
\* the operators op1 and op2:
\*   1  a op1 b op2 c ;      2  ( a op1 b ) op2 c ;   3  a op1 ( b op2 c ) ;
\*   4  ! a op1 b op2 c ;    5  - a ( ) op1 b op2 c ;
\*   6  a op1 b op2 c op1 d ;
ExpressionVector(shape, op1, op2) ==
    LET a == <<Ident("a")>>
        b == <<Ident("b")>>
        c == <<Ident("c")>>
        d == <<Ident("d")>>
        t(x) == <<TokenOf(x)>>
    IN (CASE shape = 1 -> a \o t(op1) \o b \o t(op2) \o c
          [] shape = 2 -> t("LeftParen") \o a \o t(op1) \o b
                             \o t("RightParen") \o t(op2) \o c
          [] shape = 3 -> a \o t(op1) \o t("LeftParen") \o b \o t(op2) \o c
                             \o t("RightParen")
          [] shape = 4 -> t("Bang") \o a \o t(op1) \o b \o t(op2) \o c
          [] shape = 5 -> t("Minus") \o a \o t("LeftParen") \o t("RightParen")
                             \o t(op1) \o b \o t(op2) \o c
          [] shape = 6 -> a \o t(op1) \o b \o t(op2) \o c \o t(op1) \o d)
       \o t("Semicolon") \o t("Eof")

ExpressionVectors ==
    {ExpressionVector(1, op1, op2) :
        op1 \in BinaryTokens \cup {"Equal"}, op2 \in BinaryTokens \cup {"Equal"}}
    \cup {ExpressionVector(shape, op1, op2) :
            shape \in 2..6, op1 \in BinaryTokens, op2 \in BinaryTokens}

\* How many arguments a call has and how many parameters a function.
ListLengths == {1, 254, 255, 256}

\* n identifiers with commas between them.
Listed(n) ==
    [i \in 1..(2 * n - 1) |-> IF i % 2 = 1 THEN "Identifier" ELSE "Comma"]

\* a(a, ..., a);
CallVector(n) ==
    Vector(<<"Identifier", "LeftParen">> \o Listed(n)
               \o <<"RightParen", "Semicolon">>)
\* fn a(a, ..., a) {}
FunctionVector(n) ==
    Vector(<<"Fn", "Identifier", "LeftParen">> \o Listed(n)
               \o <<"RightParen", "LeftBrace", "RightBrace">>)
\* print fn (a, ..., a) {};
AnonVector(n) ==
    Vector(<<"Print", "Fn", "LeftParen">> \o Listed(n)
               \o <<"RightParen", "LeftBrace", "RightBrace", "Semicolon">>)

CountedVectors ==
    {CallVector(n) : n \in ListLengths} \cup {FunctionVector(n) : n \in ListLengths}
        \cup {AnonVector(n) : n \in ListLengths}

InitParse ==
    /\ buffer \in {Vector(types) : types \in SeqsUpTo(StatementTokens, MaxTokens)}
                     \cup ExpressionVectors \cup CountedVectors
    /\ heap = Interpreter_new.heap
    /\ interp = Interpreter_new.interps[1]
    /\ out = <<>>
    /\ status = "Ok"
    /\ err = ""
    /\ nlines = 0
    /\ parser = parse_entry
    /\ exit_code = <<>>
    /\ log = <<>>

\* The Parser at work on the tokens in the buffer.
Parser_now == [tokens |-> buffer, current |-> parser.current]

\* One turn of the while loop of Parser::parse: a declaration is parsed
\* and pushed, or its error is pushed and the parser synchronizes.  The
\* history notes where the turn began, where declaration left the cursor
\* and where the turn ended.
ParseTurn ==
    /\ ~parser.done
    /\ ~Parser_is_end(Parser_now)
    /\ LET turn == parse_turn(Parser_now)
       IN /\ parser' =
                [current |-> turn.next.current,
                 stmts |-> IF turn.stmt.ok THEN Append(parser.stmts, turn.stmt.v)
                           ELSE parser.stmts,
                 errs |-> IF turn.stmt.ok THEN parser.errs
                          ELSE Append(parser.errs, turn.stmt.err),
                 done |-> FALSE]
          /\ log' = Append(log, [ev |-> "turn", from |-> parser.current,
                                 ok |-> turn.stmt.ok, at |-> turn.stmt.p.current,
                                 err |-> turn.stmt.err,
                                 to |-> turn.next.current])
    /\ UNCHANGED <<heap, interp, out, status, err, buffer, nlines, exit_code>>

\* The end of Parser::parse, the loop left: the Result is in status and
\* err, its statements in the history.
ParseReturn ==
    /\ ~parser.done
    /\ Parser_is_end(Parser_now)
    /\ LET r == parse_result(parser.stmts, parser.errs)
       IN /\ status' = IF r.ok THEN "Ok" ELSE "Err"
          /\ err' = r.err
          /\ log' = Append(log, [ev |-> "parse", ok |-> r.ok, v |-> r.v])
    /\ parser' = [parser EXCEPT !.done = TRUE]
    /\ UNCHANGED <<heap, interp, out, buffer, nlines, exit_code>>

NextParse == ParseTurn \/ ParseReturn

SpecParse == InitParse /\ [][NextParse]_vars

(***************************************************************************)
(* The process with arguments: main of the host (SpecMain).  With one      *)
(* argument main runs the file of that path, with more it writes its usage *)
(* and exits; without arguments it is the prompt of Spec and SpecRun.  A   *)
(* script is a sequence of lines; a path may name no readable file.        *)
(***************************************************************************)
MaxScript == 3

\* fn f() { print z; } f();
CallsUndeclared ==
    << "f", "n", " ", "f", "(", ")", " ", "{", " ", "p", "r", "i", "n", "t", " ", "z", ";", " ", "}", " ", "f", "(", ")", ";", "\n" >>

\* print z;
PrintsUndeclared ==
    << "p", "r", "i", "n", "t", " ", "z", ";", "\n" >>

ScriptLines ==
    << Declares, Prints, LexErrorAfter, NoSemicolon, CallsUndeclared,
       PrintsUndeclared >>

\* The lines of a script one after the other.
RECURSIVE ScriptText(_)
ScriptText(lines) ==
    IF lines = <<>> THEN <<>>
    ELSE ScriptLines[Head(lines)] \o ScriptText(Tail(lines))

\* run_file(path) -> Result<(), Box<dyn Error>>: the file is read to a
\* string, which fails for a path that names no readable file, and run by
\* a new interpreter.
run_file(st, readable, contents) ==
    IF ~readable
    THEN [st EXCEPT !.status = "Err",
                    !.err = "No such file or directory (os error 2)"]
    ELSE run(st, contents)

\* main with one argument: the Err of run_file is printed and main
\* returns, which ends the process with status 0; after an Ok main calls
\* exit(0).  A panic ends the process with status 101.
MainFile(readable, contents) ==
    /\ exit_code = <<>>
    /\ LET r == run_file(Session(1), readable, contents)
       IN /\ heap' = r.heap
          /\ interp' = r.interps[1]
          /\ out' = IF r.status = "Err"
                    THEN Append(r.out, "Error: " \o r.err) ELSE r.out
          /\ status' = r.status
          /\ err' = r.err
          /\ log' = r.log
          /\ exit_code' = IF r.status = "Panic" THEN <<101>> ELSE <<0>>
    /\ buffer' = contents
    /\ UNCHANGED <<nlines, parser>>

\* main with more than one argument: the usage is written to stderr and
\* the process exits with -1, which the system reports as 255.
MainUsage ==
    /\ exit_code = <<>>
    /\ err' = "Usage: rl [script]"
    /\ exit_code' = <<(-1) % 256>>
    /\ UNCHANGED <<heap, interp, out, status, buffer, nlines, parser, log>>

NextMain ==
    \/ \E lines \in SeqsUpTo(1..Len(ScriptLines), MaxScript) :
          MainFile(TRUE, ScriptText(lines))
    \/ MainFile(FALSE, <<>>)
    \/ MainUsage

SpecMain == Init /\ [][NextMain]_vars

(***************************************************************************)
(* An expression evaluated twice in one scope (SpecEval): the first line   *)
(* of the session declares a variable a and a function bump that counts in *)
(* it, the second is `var r = E; var t = E;` for an expression E.          *)
(***************************************************************************)
MaxNumber == 1

\* var a = v; fn bump() { a = a + 1; return a; }
ScopeLine(v) ==
    << Var("a", v),
       Function("bump", <<>>,
         << Expression(Assign("a", Binary(Variable("a"), "Plus", Num(1)))),
            ReturnStmt(<<Variable("a")>>) >>) >>

\* What a is declared with.
ScopeValues == {Num(0), Num(1), Literal(StringValue("a")), Literal(Nil)}

\* The expressions without an operator.
Atoms ==
    {Num(n) : n \in 0..MaxNumber}
       \cup {Literal(StringValue("a")), Literal(True), Literal(False),
             Literal(Nil), Variable("a"), Variable("zz"), Variable("clock"),
             Variable("bump"), AnonFunction(<<>>, <<>>)}

\* The expressions that store or call.
Effects ==
    {Assign("a", x) : x \in Atoms}
       \cup {Assign("a", Binary(Variable("a"), "Plus", Num(1)))}
       \cup {Call(x, <<>>) : x \in Atoms}

UnaryTokens == {"Bang", "Minus"}
ArithmeticTokens ==
    {"Plus", "Minus", "Star", "Less", "LessEqual", "Greater", "GreaterEqual",
     "EqualEqual", "BangEqual"}

\* The expressions E: the atoms, one operator over atoms, and an
\* expression that stores or calls, alone and as an operand.
Expressions ==
    Atoms \cup Effects
       \cup {Unary(op, x) : op \in UnaryTokens, x \in Atoms \cup Effects}
       \cup {Grouping(x) : x \in Atoms \cup Effects}
       \cup {Binary(x, op, y) : x \in Atoms, op \in ArithmeticTokens,
                                y \in Atoms}
       \cup {Logical(x, op, y) : x \in Atoms, op \in {"Or", "And"},
                                 y \in Atoms}
       \cup {Logical(x, "Or", Num(1)) : x \in Effects}
       \cup {Binary(x, "Plus", Num(1)) : x \in Effects}

\* var r = E; var t = E;
TwiceLine(e) == << Var("r", e), Var("t", e) >>

\* The turn of the loop that reads the line that makes the scope.
ReadScope(v) ==
    /\ nlines = 0
    /\ Turn(run_parsed(Session(1), ScopeLine(v)), 2)
    /\ buffer' = ScopeLine(v)

\* The turn of the loop that reads the line that evaluates e twice.
ReadTwice(e, now) ==
    /\ nlines = 1
    /\ Turn(run_parsed(Session(now), TwiceLine(e)), 2)
    /\ buffer' = TwiceLine(e)

NextEval ==
    \/ \E v \in ScopeValues : ReadScope(v)
    \/ \E e \in Expressions, now \in 1..MaxClock : ReadTwice(e, now)

SpecEval == Init /\ [][NextEval]_vars

(***************************************************************************)
(* Properties.  They read the history of the last line: log[i] is the i-th *)
(* thing the interpreter did, in the order it did it.                      *)
(***************************************************************************)
Events(kind) == {i \in 1..Len(log) : log[i].ev = kind}
Last(S) == CHOOSE i \in S : \A j \in S : j <= i
First(S) == CHOOSE i \in S : \A j \in S : i <= j
\* The return statements invocation k executed before position j.
ReturnsOf(k, j) == {i \in Events("return") : log[i].k = k /\ i < j}

\* C1: once an invocation of a user function has executed a return
\* statement, however deep in blocks, ifs and whiles of the body, it
\* executes no further statement of the body, and the call yields the value
\* of the first return it executed.
ReturnEndsInvocation ==
    /\ \A i \in Events("return") : \A j \in Events("stmt") :
          log[i].k # 1 /\ log[j].k = log[i].k => j < i
    /\ \A j \in Events("yield") :
          ReturnsOf(log[j].k, j) # {}
             => log[j].v = log[First(ReturnsOf(log[j].k, j))].v

\* The bindings of the environment cells that hold a function value made
\* by a declaration or a function expression.
Closures ==
    {b \in UNION {{<<e, n>> : n \in DOMAIN heap[e].values}
                     : e \in 1..Len(heap)} :
        /\ heap[b[1]].values[b[2]].t = "Callable"
        /\ heap[b[1]].values[b[2]].fun.kind # "clock"}
\* What was last stored (declared or assigned) before position j in the
\* binding of name in the cell scope.
Stores(scope, name, j) ==
    {i \in Events("write") \cup Events("define") :
        i < j /\ log[i].scope = scope /\ log[i].name = name}

\* C2: a function value holds the scope it was defined in, not a copy: what
\* a name means through the function's environment is at all times what it
\* means in the defining scope, and a read of a variable, through whatever
\* function or scope, observes the value last stored in that variable.
ClosureCapturesByReference ==
    /\ \A b \in Closures :
          View(heap, heap[b[1]].values[b[2]].fun.env, Names)
             = View(heap, heap[b[1]].values[b[2]].fun.defenv, Names)
    /\ \A j \in Events("read") :
          Stores(log[j].scope, log[j].name, j) # {}
             => log[j].v = log[Last(Stores(log[j].scope, log[j].name, j))].v

\* C2 happens: one function assigned a variable of the scope two functions
\* were defined in, then the other function and the scope itself read the
\* new value.
ClosureCapturesByReferenceWitness ==
    \E w \in Events("write"), r \in Events("read"), d \in Events("read"),
       f \in Events("invoke"), g \in Events("invoke") :
        /\ f < w /\ w < g /\ g < r /\ r < d
        /\ log[f].name # log[g].name
        /\ log[f].closure = log[w].scope /\ log[g].closure = log[w].scope
        /\ log[w].env = log[f].env /\ log[r].env = log[g].env
        /\ log[d].env = log[w].scope
        /\ log[r].scope = log[w].scope /\ log[d].scope = log[w].scope
        /\ log[r].name = log[w].name /\ log[d].name = log[w].name
        /\ log[r].v = log[w].v /\ log[d].v = log[w].v
        /\ log[w].v = Number(1)

\* What block b did: the positions of the history between its start and
\* its end.
Span(b) == {j \in 1..Len(log) : log[b].from < j /\ j < b}

\* C3: a block leaves every variable of the enclosing scopes as it was,
\* unless the block assigned to that very variable: a `var x` inside the
\* block and assignments to the x it declared do not touch an outer x.
BlockShadows ==
    \A b \in Events("block") : \A x \in Names :
        (\A j \in Span(b) \cap Events("write") :
            log[j].name = x => log[j].scope > log[b].cells)
           => log[b].before[x] = log[b].after[x]

\* C3 happens: a block declared an x that exists outside, assigned another
\* value to its own x, and the outer x is what it was.
BlockShadowsWitness ==
    \E b \in Events("block") : \E d \in Span(b) \cap Events("define") :
    \E w \in Span(b) \cap Events("write") :
        /\ d < w /\ log[d].name = log[w].name
        /\ log[d].env = log[b].inner /\ log[w].scope = log[b].inner
        /\ log[b].before[log[d].name] # <<>>
        /\ log[b].before[log[d].name] = log[b].after[log[d].name]
        /\ log[b].before[log[d].name] # <<log[d].v>>
        /\ log[b].before[log[d].name] # <<log[w].v>>
        /\ log[b].ok

\* C4: a block puts the interpreter's current environment back to what it
\* was when the block began, whether its statements ended in Ok or in Err;
\* so the session's interpreter is in the global environment after every
\* line that returned.
BlockRestoresEnvironment ==
    /\ \A b \in Events("block") : log[b].restored = log[b].outer
    /\ status # "Panic" => interp.environment = 1

\* C4 happens: a block inside a block ended in Err, both put the
\* environment back, and the line returned Err.
BlockRestoresEnvironmentWitness ==
    /\ status = "Err"
    /\ \E a \in Events("block"), b \in Events("block") :
          /\ a < b /\ ~log[a].ok /\ ~log[b].ok
          /\ log[a].outer = log[b].inner
          /\ log[a].restored = log[a].outer
          /\ log[b].restored = 1

\* The invocation whose interpreter is k.
InvokeOf(k) == CHOOSE f \in Events("invoke") : log[f].k = k

\* C5: every invocation of a user function runs in an environment made for
\* that invocation alone, whose enclosing environment is the one that was
\* current where the function was defined.
FreshInvocationEnvironment ==
    \A f \in Events("invoke") :
        /\ log[f].env > log[f].heaplen
        /\ heap[log[f].env].enclosing = log[f].defined
        /\ \A g \in Events("invoke") : g # f => log[g].env # log[f].env

\* C5 happens: the function an invocation of counter declared was invoked
\* twice; each time in another environment, both enclosed by that of the
\* invocation of counter, not by the caller's, and both found n there.
FreshInvocationEnvironmentWitness ==
    \E f \in Events("invoke"), g \in Events("invoke"), r \in Events("read") :
        /\ f < g /\ g < r
        /\ log[f].name = "bump" /\ log[g].name = "bump"
        /\ log[f].defined = log[g].defined /\ log[f].env # log[g].env
        /\ log[g].defined # interp.environment
        /\ log[r].env = log[g].env /\ log[r].scope = log[g].defined
        /\ log[r].name = "n"
        /\ out = <<"1", "2", "1">>

\* C6: every invocation starts with signals of its own that are empty; a
\* return statement sets the slot of the invocation (or of the session's
\* interpreter) that executed it and no other; and an invocation that ends
\* because of a return slot ends with the value of a return of its own.
ReturnSignalIsLocal ==
    /\ \A f \in Events("invoke") :
          /\ log[f].signals = {}
          /\ log[f].specials > log[f].heaplen
          /\ \A g \in Events("invoke") :
                g # f => log[g].specials # log[f].specials
    /\ \A r \in Events("return") :
          log[r].cell = IF log[r].k = 1 THEN interp.specials
                        ELSE log[InvokeOf(log[r].k)].specials
    /\ \A y \in Events("yield") :
          log[y].slot =>
             /\ ReturnsOf(log[y].k, y) # {}
             /\ log[y].v = log[Last(ReturnsOf(log[y].k, y))].v

\* C6 happens: a function called another whose return ended that one with
\* 2; the caller went on with its next statement and returned 3 itself.
ReturnSignalIsLocalWitness ==
    \E f \in Events("invoke"), g \in Events("invoke"),
       r \in Events("return"), y \in Events("yield"),
       s \in Events("stmt"), z \in Events("yield") :
        /\ f < g /\ g < r /\ r < y /\ y < s /\ s < z
        /\ log[r].k = log[g].k /\ log[y].k = log[g].k
        /\ log[s].k = log[f].k /\ log[z].k = log[f].k
        /\ log[f].k # log[g].k
        /\ log[y].v = Number(2) /\ log[z].v = Number(3)
        /\ log[y].slot /\ log[z].slot

\* C7: a call of a user function yields nil when the invocation executed no
\* return statement that has a value.
NoReturnYieldsNil ==
    \A y \in Events("yield") :
        (\A r \in ReturnsOf(log[y].k, y) : ~log[r].hasval) => log[y].v = Nil

\* C7 happens: nil came from a function with an empty body, from one whose
\* body is a bare `return;`, and from one whose body printed and ended.
NoReturnYieldsNilWitness ==
    \E a \in Events("yield"), b \in Events("yield"), c \in Events("yield") :
        /\ a < b /\ b < c
        /\ ~log[a].slot /\ log[b].slot /\ ~log[c].slot
        /\ \A s \in Events("stmt") : log[s].k # log[a].k
        /\ \E r \in ReturnsOf(log[b].k, b) : ~log[r].hasval
        /\ \E s \in Events("stmt") : log[s].k = log[c].k /\ s < c
        /\ log[a].v = Nil /\ log[b].v = Nil /\ log[c].v = Nil
        /\ out = <<"nil", "nil", "1", "nil">>

\* The calls whose number of arguments is not the callee's arity.
Mismatches == {c \in Events("call") : log[c].nargs # log[c].arity}
\* A call that failed did nothing after position c: what follows in the
\* history is blocks being left.
NothingAfter(c) ==
    \A j \in 1..Len(log) : j > c => log[j].ev = "block"

\* C8 as it is stated: a call with the wrong number of arguments is an
\* error; no statement of the callee runs, no argument is evaluated, and
\* the bindings are what they were when the call expression began.
ArityMismatchChangesNothing ==
    \A c \in Mismatches :
        /\ status # "Ok" /\ err = "expected arguments got"
        /\ NothingAfter(c)
        /\ heap = log[c].entry[1]

\* C8: a call with the wrong number of arguments is an error; no statement
\* of the callee runs, no argument is evaluated, and the bindings are what
\* they were when the callee expression had been evaluated.
ArityMismatchIsError ==
    \A c \in Mismatches :
        /\ status # "Ok" /\ err = "expected arguments got"
        /\ NothingAfter(c)
        /\ heap = log[c].heap[1]

\* C8 happens: two(a = 5), after a call two(1, 2) that went well, is an
\* error, and a is still 0.
ArityMismatchIsErrorWitness ==
    \E g \in Events("call"), c \in Mismatches :
        /\ g < c /\ log[g].name = "two" /\ log[c].name = "two"
        /\ log[g].nargs = log[g].arity
        /\ log[c].nargs = 1 /\ log[c].arity = 2
        /\ status = "Err"
        /\ heap[1].values["a"] = Number(0)
        /\ out = <<"1", "2", "expected arguments got">>

\* C9: `or` does not evaluate its right operand when the value of the left
\* one is truthy, and `and` does not when it is falsy.
LogicalShortCircuits ==
    \A l \in Events("logical") :
        /\ log[l].op = "Or" /\ is_truthy(log[l].lhs) = True => ~log[l].rhs
        /\ log[l].op = "And" /\ is_truthy(log[l].lhs) = False => ~log[l].rhs

\* C10: the value of a logical expression is the value of one of its
\* operands: of the left one when that decides, of the right one otherwise.
LogicalYieldsOperand ==
    \A l \in Events("logical") :
        log[l].v # <<>> =>
            log[l].v = IF is_truthy(log[l].lhs)
                            = (IF log[l].op = "Or" THEN True ELSE False)
                       THEN <<log[l].lhs>>
                       ELSE log[l].rv

\* C11: a runtime error raised by a statement of a function body comes out
\* of the line as an Err with that message (which the read-eval loop prints
\* before it reads the next line), not as a crash of the host.
ErrorInBodyIsReported ==
    \A e \in Events("raise") : status = "Err" /\ err = log[e].msg

\* The messages of the panics of is_truthy and is_falsy.
CallableTruthMessages ==
    {"Cannot use callable as a truthy value",
     "Cannot use callable as a falsy value"}

\* C12: a function value where a truth value is needed is a runtime error
\* that comes out of the line as an Err, not as a crash of the host, and
\* the guarded statement does not run.
CallableTruthinessIsError ==
    err \in CallableTruthMessages => status = "Err" /\ out = <<err>>

\* Two values are the same: of one variant and, for numbers and strings,
\* of one content.
Same(a, b) ==
    /\ a.t = b.t
    /\ a.t = "Number" => a.n = b.n
    /\ a.t = "StringValue" => a.s = b.s

\* C13: `==` and `!=` have a value for every pair of values, never an
\* error: `==` is true exactly for two values that are the same, and `!=`
\* is its negation.
EqualityIsTotal ==
    \A b \in Events("binary") :
        log[b].op \in Equalities =>
            log[b].v = <<FromBool((log[b].op = "EqualEqual")
                                     = Same(log[b].left, log[b].right))>>

\* The numeric comparison a comparison operator stands for.
Compares(x, op, y) ==
    CASE op = "Less" -> x < y
      [] op = "LessEqual" -> x <= y
      [] op = "Greater" -> x > y
      [] op = "GreaterEqual" -> x >= y

\* C14: each of `<`, `<=`, `>`, `>=` on two numbers has a value, the
\* Boolean of the numeric comparison.
NumberComparisons ==
    \A b \in Events("binary") :
        /\ log[b].op \in Comparisons
        /\ log[b].left.t = "Number" /\ log[b].right.t = "Number"
        => log[b].v = <<FromBool(Compares(log[b].left.n, log[b].op,
                                          log[b].right.n))>>

\* The truth of a value that is not a function: nil, false, 0 and the empty
\* string are false, everything else is true.
Truth(v) ==
    CASE v.t \in {"Nil", "False"} -> FALSE
      [] v.t = "True" -> TRUE
      [] v.t = "Number" -> v.n # 0
      [] v.t = "StringValue" -> v.s # ""

\* C15: a condition holds exactly when its value is true in the sense of
\* Truth; `!v` is the Boolean negation of the truth of v; and `!!v` is the
\* truth of v.
TruthinessOfValues ==
    /\ \A t \in Events("test") :
          log[t].v.t # "Callable" => log[t].truth = Truth(log[t].v)
    /\ \A u \in Events("unary") :
          log[u].op = "Bang" /\ log[u].right.t # "Callable"
             => log[u].v = <<FromBool(~Truth(log[u].right))>>
    /\ \A u \in Events("unary") : \A w \in Events("unary") :
          /\ w = u + 1 /\ log[u].op = "Bang" /\ log[w].op = "Bang"
          /\ log[u].right.t # "Callable" /\ <<log[w].right>> = log[u].v
          => log[w].v = <<FromBool(Truth(log[u].right))>>

\* C15 happens: 0 was a condition that did not hold (in an if and in a
\* while), !0 was true and !!0 false.
TruthinessOfValuesWitness ==
    /\ out = <<"f", "true", "false">>
    /\ \E i \in Events("test"), w \in Events("test") :
          /\ i < w /\ log[i].s = "IfStmt" /\ log[w].s = "WhileStmt"
          /\ log[i].v = Number(0) /\ ~log[i].truth
          /\ log[w].v = Number(0) /\ ~log[w].truth
    /\ \E u \in Events("unary") :
          /\ log[u].right = Number(0) /\ log[u].v = <<True>>
          /\ u + 1 \in Events("unary") /\ log[u + 1].v = <<False>>

\* The scopes from e outwards, and the nearest of them that binds name
\* (0: none does).
RECURSIVE ChainOf(_, _)
ChainOf(h, e) == IF e = 0 THEN <<>> ELSE <<e>> \o ChainOf(h, h[e].enclosing)
Nearest(h, e, name) ==
    LET c == ChainOf(h, e)
        hits == {i \in 1..Len(c) : name \in DOMAIN h[c[i]].values}
    IN IF hits = {} THEN 0 ELSE c[CHOOSE i \in hits : \A j \in hits : i <= j]

\* C17: assign changes the binding of the name in the nearest scope of the
\* chain that has it, reports success and leaves every other binding of
\* every scope as it was; where no scope of the chain has the name it
\* reports failure and changes nothing, so it binds nothing new.
AssignUpdatesNearest ==
    \A a \in Events("assign") :
        LET h == log[a].before
            s == Nearest(h, log[a].env, log[a].name)
        IN IF s # 0
           THEN /\ log[a].ok
                /\ log[a].after =
                      [h EXCEPT ![s].values[log[a].name] = log[a].v]
           ELSE ~log[a].ok /\ log[a].after = h

\* C17 happens: an assignment from the innermost scope changed a binding
\* two scopes further out that a sibling name shadows nowhere, and left the
\* rest alone.
AssignUpdatesNearestWitness ==
    \E a \in Events("assign") :
        LET h == log[a].before
            c == ChainOf(h, log[a].env)
        IN /\ Len(c) = 3 /\ log[a].ok
           /\ Nearest(h, log[a].env, log[a].name) = c[3]
           /\ h[c[3]].values[log[a].name] # log[a].v
           /\ log[a].after[c[3]].values[log[a].name] = log[a].v
           /\ log[a].after[c[1]] = h[c[1]] /\ log[a].after[c[2]] = h[c[2]]
           /\ DOMAIN h[c[1]].values # {}

\* C18: get returns the value the name has in the nearest scope of the
\* chain that has it, and nothing only where no scope of the chain has it;
\* define binds the name in the current scope and changes nothing else, so
\* the name has the new value from there and what it had from any
\* enclosing scope.
GetAndDefine ==
    /\ \A g \in Events("get") :
          LET h == log[g].before
              s == Nearest(h, log[g].env, log[g].name)
          IN log[g].r = IF s = 0 THEN <<>> ELSE <<h[s].values[log[g].name]>>
    /\ \A d \in Events("define") :
          LET h == log[d].before
              e == log[d].env
              x == log[d].name
          IN /\ DOMAIN log[d].after[e].values = DOMAIN h[e].values \cup {x}
             /\ log[d].after[e].values[x] = log[d].v
             /\ \A y \in DOMAIN h[e].values :
                   y # x => log[d].after[e].values[y] = h[e].values[y]
             /\ \A c \in 1..Len(h) : c # e => log[d].after[c] = h[c]
             /\ log[d].after[e].enclosing = h[e].enclosing
             /\ Len(log[d].after) = Len(h)

\* C18 happens: a get from the innermost scope found the name in the
\* outermost one, past a scope that has another name.
GetAndDefineWitness ==
    \E g \in Events("get") :
        LET h == log[g].before
            c == ChainOf(h, log[g].env)
        IN /\ Len(c) = 3
           /\ Nearest(h, log[g].env, log[g].name) = c[3]
           /\ log[g].r = <<Number(0)>>
           /\ DOMAIN h[c[2]].values # {}

\* The environments the last line made for a block or for an invocation.
MadeScopes ==
    {log[b].inner : b \in Events("block")}
       \cup {log[f].env : f \in Events("invoke")}

\* Every enclosing link leads to an environment made earlier, and from
\* there on to the global one, where clock is bound; the environments of
\* blocks and invocations have such a link.
LinksLeadToGlobal ==
    /\ "clock" \in DOMAIN heap[1].values /\ heap[1].enclosing = 0
    /\ \A e \in 1..Len(heap) :
          heap[e].enclosing # 0 =>
              heap[e].enclosing < e /\ Root(heap, e) = 1
    /\ \A e \in MadeScopes : heap[e].enclosing # 0

\* No line takes an environment away or changes its enclosing link.
LinksStay ==
    \A e \in 1..Len(heap) :
        e <= Len(heap') /\ heap'[e].enclosing = heap[e].enclosing

\* C19: the enclosing links of the scope environments are acyclic and form
\* a tree rooted at the global scope, which every environment of a block or
\* of an invocation reaches; and a link, once made, is never changed.
ScopesFormTree == []LinksLeadToGlobal /\ [][LinksStay]_vars

\* C19 happens: the environment of an invocation is enclosed by that of
\* another invocation, which the global one encloses, and a block's by the
\* global one, in a session that is at its second line.
ScopesFormTreeWitness ==
    /\ nlines = 2
    /\ \E f \in Events("invoke"), g \in Events("invoke") :
          /\ heap[log[g].env].enclosing = log[f].env
          /\ heap[log[f].env].enclosing = 1
    /\ \E e \in 1..Len(heap) : \E d \in 1..Len(heap) :
          /\ heap[e].enclosing = d /\ heap[d].enclosing = 1
          /\ e \notin MadeScopes /\ d \notin MadeScopes

\* The lexer or the parser returned an Err for the line.
FrontEndFailed ==
    \E e \in Events("scan_tokens") \cup Events("parse") : ~log[e].ok

\* C16: in one run (lex, parse, interpret), if lexing or parsing reports an
\* error then no statement of the line is interpreted, not even those
\* before the erroneous one: nothing is printed but the error the prompt
\* reports, and the environments of the interpreter are as they were.
FrontEndErrorRunsNothing ==
    [][FrontEndFailed' =>
          /\ \A e \in 1..Len(log') : log'[e].ev \in {"scan_tokens", "parse"}
          /\ status' = "Err"
          /\ out' = <<err'>>
          /\ heap' = heap
          /\ interp' = interp]_vars

\* C16 happens: after a line declared a, a line was read whose first
\* statement prints and whose second does not parse.
FrontEndErrorRunsNothingWitness ==
    /\ nlines = 2
    /\ buffer = ParseErrorAfter
    /\ FrontEndFailed
    /\ "a" \in DOMAIN heap[interp.environment].values
    /\ out = <<"Expected variable name">>

\* The parser at the first token of a text.
ParserOf(text) == Parser_new(scan_tokens(Lexer_new(text)).tokens)

\* The for loops whose text is the line in the buffer.
LoopsRead ==
    IF nlines = 0 THEN {}
    ELSE {f \in {ForLoops[i] : i \in 1..Len(ForLoops)} : ForText(f) = buffer}

\* The parts of a for loop, each parsed alone: the initializer I and the
\* body B as statements, the condition C and the increment E as
\* expressions; a part that is missing is <<>>.
PartsOf(f) ==
    [I |-> IF f.init = << ";" >> THEN <<>>
           ELSE <<declaration(ParserOf(f.init)).v>>,
     C |-> IF f.cond = <<>> THEN <<>>
           ELSE <<expression(ParserOf(f.cond)).v>>,
     E |-> IF f.incr = <<>> THEN <<>>
           ELSE <<expression(ParserOf(f.incr)).v>>,
     B |-> <<statement(ParserOf(f.body)).v>>]

\* What an event of the history is to the loop of the parts p: the
\* execution of I, of B or of E as a statement, a test of C (of `true`
\* where C is missing) by a while that found it true or found it false, or
\* nothing.
PartOf(event, p) ==
    CASE event.ev = "stmt" /\ <<event.stmt>> = p.I -> "I"
      [] event.ev = "stmt" /\ <<event.stmt>> = p.B -> "B"
      [] event.ev = "stmt" /\ p.E # <<>> /\ event.s = "Expression"
           /\ <<event.stmt.expression>> = p.E -> "E"
      [] event.ev = "test" /\ event.s = "WhileStmt"
           /\ <<event.stmt.condition>> =
                 (IF p.C = <<>> THEN <<Literal(True)>> ELSE p.C) ->
                 IF event.truth THEN "C+" ELSE "C-"
      [] OTHER -> ""

\* What the loop did, in order: the parts of the events of the history that
\* are its own.
RECURSIVE LoopTrace(_, _)
LoopTrace(events, p) ==
    IF events = <<>> THEN <<>>
    ELSE (IF PartOf(Head(events), p) = "" THEN <<>>
          ELSE <<PartOf(Head(events), p)>>) \o LoopTrace(Tail(events), p)

\* t is what a while over C with the body B and then E does: a test found
\* false ends it; a test found true is followed by B and B by E, and then
\* the next test; it stops elsewhere only where the line failed.
RECURSIVE Iterates(_, _)
Iterates(t, p) ==
    \/ t = <<>> /\ status # "Ok"
    \/ t = <<"C-">> /\ p.C # <<>>
    \/ /\ Len(t) >= 2 /\ t[1] = "C+" /\ t[2] = "B"
       /\ IF p.E = <<>> THEN Iterates(SubSeq(t, 3, Len(t)), p)
          ELSE IF Len(t) = 2 THEN status # "Ok"
          ELSE t[3] = "E" /\ Iterates(SubSeq(t, 4, Len(t)), p)

\* The definitions the initializer made: the first define of its name after
\* it started.
LoopVariables(p) ==
    {d \in Events("define") :
        /\ p.I # <<>> /\ p.I[1].s = "Var"
        /\ log[d].name = p.I[1].name
        /\ \E i \in 1..(d - 1) :
              /\ PartOf(log[i], p) = "I"
              /\ \A j \in (i + 1)..(d - 1) : log[j].ev # "define"}

\* The position where the loop ended: the test that found C false, or the
\* end of the history where the line failed before.
LoopEnd(p) ==
    IF \E i \in 1..Len(log) : PartOf(log[i], p) = "C-"
    THEN CHOOSE i \in 1..Len(log) : PartOf(log[i], p) = "C-"
    ELSE Len(log) + 1

\* The for loop read does what its parts p say.
ExecutesAsWhile(p, t) ==
    /\ IF p.I = <<>> THEN Iterates(t, p)
       ELSE \/ t = <<>> /\ status # "Ok"
            \/ t # <<>> /\ t[1] = "I" /\ Iterates(Tail(t), p)
    /\ \A d \in LoopVariables(p) :
          /\ log[d].env \notin
                {ChainOf(heap, interp.environment)[k] :
                    k \in 1..Len(ChainOf(heap, interp.environment))}
          /\ \A e \in Events("read") \cup Events("write") :
                e > d /\ log[e].name = log[d].name
                => (log[e].scope = log[d].env <=> e < LoopEnd(p))

\* C20: a `for` with initializer I, condition C, increment E and body B
\* executes as Block{ I, While{ C, Block{ B, Expression{E} } } }: I runs
\* once, before the first test of C; C is tested before each iteration,
\* and a missing C is `true`; E runs after B on every iteration; a variable
\* declared by I is the one the loop reads and writes, and is not declared
\* after the loop ended.
ForExecutesAsWhile ==
    \A f \in LoopsRead :
        ExecutesAsWhile(PartsOf(f), LoopTrace(log, PartsOf(f)))

\* C20 happens: a loop with all four parts ran two iterations in a session
\* that had declared a variable of the name of the loop's, and the line
\* read that variable after the loop.
ForExecutesAsWhileWitness ==
    /\ nlines > 0
    /\ buffer = ForText(Shadowing)
    /\ status = "Ok"
    /\ LoopTrace(log, PartsOf(Shadowing))
          = <<"I", "C+", "B", "E", "C+", "B", "E", "C-">>
    /\ out = <<"0", "1", "7">>
    /\ \E d \in LoopVariables(PartsOf(Shadowing)) :
       \E e \in Events("read"), g \in Events("read") :
          /\ d < e /\ e < LoopEnd(PartsOf(Shadowing))
          /\ LoopEnd(PartsOf(Shadowing)) < g
          /\ log[e].name = "i" /\ log[g].name = "i"

\* How many of the characters of a text are newlines.
RECURSIVE Newlines(_)
Newlines(text) ==
    IF text = <<>> THEN 0
    ELSE (IF Head(text) = "\n" THEN 1 ELSE 0) + Newlines(Tail(text))

\* C21: the token sequence of a source that lexes has exactly one Eof
\* token; it is the last token, its lexeme is empty and its line is 1 plus
\* the number of newlines of the source.
EofEndsTokens ==
    \A s \in Events("scan_tokens") :
        log[s].ok =>
            /\ {i \in 1..Len(log[s].tokens) : log[s].tokens[i].token_t = "Eof"}
                  = {Len(log[s].tokens)}
            /\ log[s].tokens[Len(log[s].tokens)].lexme = ""
            /\ log[s].tokens[Len(log[s].tokens)].line_number
                  = 1 + Newlines(buffer)

\* C21 happens: a source of an identifier and a newline was lexed, so the
\* Eof token is on the line after the one of the only other token.
EofEndsTokensWitness ==
    \E s \in Events("scan_tokens") :
        /\ log[s].ok
        /\ buffer = << "a", "\n" >>
        /\ Len(log[s].tokens) = 2
        /\ log[s].tokens[1].line_number = 1
        /\ log[s].tokens[2].line_number = 2

\* The characters scan_token has an arm for.
Recognized ==
    DOMAIN SingleChar \cup DOMAIN OneOrTwo \cup Alphas
        \cup {Digits[i] : i \in 1..Len(Digits)}
        \cup {"/", " ", "\r", "\t", "\n", "\""}

\* The lex errors of a text from position i on, in source order, by the
\* rules of the language: outside strings and comments a character that
\* starts no token is unrecognized; a string not closed at the end of the
\* text is unterminated.  mode is where position i is: in code, in a
\* string or in a comment; line is its line.
RECURSIVE LexErrors(_, _, _, _)
LexErrors(text, i, mode, line) ==
    IF i > Len(text)
    THEN IF mode = "string" THEN <<"Unterminated string">> ELSE <<>>
    ELSE CASE mode = "string" ->
                LexErrors(text, i + 1,
                          IF text[i] = "\"" THEN "code" ELSE "string",
                          IF text[i] = "\n" THEN line + 1 ELSE line)
           [] mode = "comment" ->
                IF text[i] = "\n" THEN LexErrors(text, i + 1, "code", line + 1)
                ELSE LexErrors(text, i + 1, "comment", line)
           [] OTHER ->
                IF text[i] = "\"" THEN LexErrors(text, i + 1, "string", line)
                ELSE IF text[i] = "/" /\ i < Len(text) /\ text[i + 1] = "/"
                THEN LexErrors(text, i + 2, "comment", line)
                ELSE IF text[i] = "\n"
                THEN LexErrors(text, i + 1, "code", line + 1)
                ELSE IF text[i] \notin Recognized
                THEN <<"Unrecognized char at line " \o ToString(line)
                          \o ": '" \o text[i] \o "'">>
                        \o LexErrors(text, i + 1, "code", line)
                ELSE LexErrors(text, i + 1, "code", line)

\* The messages, each ended by a newline, as one text.
RECURSIVE EachOnALine(_)
EachOnALine(messages) ==
    IF messages = <<>> THEN ""
    ELSE Head(messages) \o "\n" \o EachOnALine(Tail(messages))

NamesOf(params) == {params[i] : i \in 1..Len(params)}

\* C29: an invocation binds each argument under the name of its parameter
\* in the environment made for the invocation and nowhere else: every
\* environment there was when the call began, the one the function value
\* holds and the caller's among them, is after the binding what it was
\* before, also where it binds a name of a parameter; and an assignment to
\* a parameter in the body stores in the environment of the invocation.
ParametersBindInInvocation ==
    /\ \A b \in Events("bind") :
          /\ log[b].env > Len(log[b].entry)
          /\ \A c \in 1..Len(log[b].entry) : log[b].heap[c] = log[b].entry[c]
          /\ log[b].heap[log[b].env].enclosing = log[b].closure
          /\ DOMAIN log[b].heap[log[b].env].values = NamesOf(log[b].params)
          /\ \A i \in 1..Len(log[b].params) :
                (\A j \in (i + 1)..Len(log[b].params) :
                    log[b].params[j] # log[b].params[i])
                   => log[b].heap[log[b].env].values[log[b].params[i]]
                         = log[b].args[i]
    /\ \A b \in Events("bind") : \A w \in Events("write") :
          log[w].env = log[b].env /\ log[w].name \in NamesOf(log[b].params)
             => log[w].scope = log[b].env

\* C29 happens: f(p) was called from the scope that declares a p and from a
\* block that declares another; each call assigned to its parameter, and
\* both outer p are what they were.
ParametersBindInInvocationWitness ==
    /\ nlines > 0 /\ buffer = 18
    /\ out = <<"6", "8", "2", "1">>
    /\ \E b \in Events("bind") : \E w \in Events("write") :
          /\ b < w
          /\ log[w].env = log[b].env /\ log[w].name = "p"
          /\ log[b].args = <<Number(7)>>
          /\ log[w].v = Number(8)
          /\ "p" \in DOMAIN log[b].entry[log[b].closure].values
          /\ \E c \in 1..Len(log[b].entry) :
                /\ c # log[b].closure
                /\ "p" \in DOMAIN log[b].entry[c].values
                /\ log[b].entry[c].values["p"] = Number(2)

\* The expression has a call or an assignment in it.
RECURSIVE StoresOrCalls(_)
StoresOrCalls(e) ==
    CASE e.e \in {"Call", "Assign"} -> TRUE
      [] e.e = "Unary" -> StoresOrCalls(e.right)
      [] e.e = "Grouping" -> StoresOrCalls(e.expression)
      [] e.e \in {"Binary", "Logical"} ->
            StoresOrCalls(e.left) \/ StoresOrCalls(e.right)
      [] OTHER -> FALSE

\* The expression has a call of clock in it.
RECURSIVE CallsClock(_)
CallsClock(e) ==
    CASE e.e = "Call" ->
            e.callee = Variable("clock") \/ CallsClock(e.callee)
               \/ \E i \in 1..Len(e.arguments) : CallsClock(e.arguments[i])
      [] e.e = "Assign" -> CallsClock(e.value)
      [] e.e = "Unary" -> CallsClock(e.right)
      [] e.e = "Grouping" -> CallsClock(e.expression)
      [] e.e \in {"Binary", "Logical"} ->
            CallsClock(e.left) \/ CallsClock(e.right)
      [] OTHER -> FALSE

\* The line `var r = E; var t = E;` was read in the scope.
EvaluatedTwice == nlines = 2

\* The values of the two evaluations of E are equal, where there are two.
TwiceEqual ==
    /\ status = "Ok" =>
          heap[interp.environment].values["r"]
             = heap[interp.environment].values["t"]
    /\ status = "Err" => "r" \notin DOMAIN heap[interp.environment].values

LeftOperandOnce ==
    \A l \in Events("logical") : log[l].left_evals = 1

(***************************************************************************)
(* The parser alone (SpecParse).                                           *)
(***************************************************************************)

\* The turns of the loop of parse so far.
Turns == SelectSeq(log, LAMBDA e : e.ev = "turn")

\* The keywords a statement begins with.
StatementStarts ==
    {"Class", "Fn", "Var", "For", "If", "While", "Print", "Return"}

\* With the cursor at q the parser has consumed a `;`, or the next token
\* begins a statement or is the Eof.
Synchronized(q) ==
    \/ buffer[q + 1].token_t = "Eof"
    \/ q > 0 /\ buffer[q].token_t = "Semicolon"
    \/ buffer[q + 1].token_t \in StatementStarts

\* Where synchronize begins to look after an error with the cursor at q:
\* past the token at q, unless that is the Eof.
PastError(q) == IF buffer[q + 1].token_t = "Eof" THEN q ELSE q + 1

\* The messages, each but the last with a newline after it.
RECURSIVE NewlineJoined(_)
NewlineJoined(messages) ==
    IF messages = <<>> THEN ""
    ELSE IF Len(messages) = 1 THEN messages[1]
    ELSE messages[1] \o "\n" \o NewlineJoined(Tail(messages))

\* The messages of the turns that ended in an error, in order.
RECURSIVE Recorded(_)
Recorded(turns) ==
    IF turns = <<>> THEN <<>>
    ELSE (IF Head(turns).ok THEN <<>> ELSE <<Head(turns).err>>)
             \o Recorded(Tail(turns))

\* C23: on a parse error the parser records the message and advances to
\* the first place past the error where it has consumed a `;` or the next
\* token is one of class fn var for if while print return or the Eof, and
\* the next declaration is parsed from there; parse returns a failure if
\* and only if an error was recorded, and the failure is the recorded
\* messages in order, joined by newlines.
ParserSynchronizes ==
    /\ parser.errs = Recorded(Turns)
    /\ \A i \in 1..Len(Turns) :
          /\ Turns[i].from = (IF i = 1 THEN 0 ELSE Turns[i - 1].to)
          /\ Turns[i].ok => Turns[i].to = Turns[i].at
          /\ ~Turns[i].ok =>
                /\ Turns[i].to >= PastError(Turns[i].at)
                /\ Synchronized(Turns[i].to)
                /\ \A q \in PastError(Turns[i].at)..(Turns[i].to - 1) :
                      ~Synchronized(q)
    /\ parser.done =>
          /\ buffer[parser.current + 1].token_t = "Eof"
          /\ (status = "Err") <=> (Recorded(Turns) # <<>>)
          /\ status = "Err" => err = NewlineJoined(Recorded(Turns))
          /\ status # "Err" => status = "Ok" /\ Len(parser.stmts) = Len(Turns)

\* C23 happens: `= var ;` has two errors; after the first the parser stops
\* before the `var`, after the second past the `;`, and the failure has
\* both messages.
ParserSynchronizesWitness ==
    /\ parser.done
    /\ buffer = Vector(<<"Equal", "Var", "Semicolon">>)
    /\ Len(Turns) = 2
    /\ Turns[1].at = 0 /\ Turns[1].to = 1
    /\ Turns[2].at = 2 /\ Turns[2].to = 3
    /\ status = "Err"
    /\ err = "Expected expression\nExpected variable name"

\* C30: on every token vector that ends with an Eof parse terminates: the
\* cursor stays on the vector and never passes the first Eof, every
\* declaration parsed consumes a token, and every error followed by
\* synchronize consumes a token or leaves the cursor at the Eof; every turn
\* of the loop so moves the cursor forward, there are no more turns than
\* tokens before the Eof, and with the cursor at the Eof parse returns.
ParseTerminates ==
    /\ parser.current \in 0..(Len(buffer) - 1)
    /\ \A q \in 1..parser.current : buffer[q].token_t # "Eof"
    /\ Len(Turns) <= parser.current
    /\ \A i \in 1..Len(Turns) :
          /\ Turns[i].from <= Turns[i].at
          /\ Turns[i].at <= Turns[i].to
          /\ Turns[i].from < Turns[i].to
          /\ Turns[i].to <= parser.current
          /\ Turns[i].ok => Turns[i].from < Turns[i].at
          /\ ~Turns[i].ok =>
                \/ Turns[i].at < Turns[i].to
                \/ buffer[Turns[i].to + 1].token_t = "Eof"
    /\ buffer[parser.current + 1].token_t = "Eof" =>
          parser.done \/ ENABLED ParseReturn

\* C30 happens: on `1 ; =` the first turn parses a statement of two
\* tokens, the second fails at the `=`, synchronize consumes it and stops
\* at the Eof, and parse returns.
ParseTerminatesWitness ==
    /\ parser.done
    /\ buffer = Vector(<<"Number", "Semicolon", "Equal">>)
    /\ Len(Turns) = 2
    /\ Turns[1].ok /\ Turns[1].from = 0 /\ Turns[1].to = 2
    /\ ~Turns[2].ok /\ Turns[2].at = 2 /\ Turns[2].to = 3
    /\ parser.current = 3

\* The level of an operator in the grammar, from assignment, the lowest.
Level(op) ==
    CASE op = "Equal" -> 1
      [] op = "Or" -> 2
      [] op = "And" -> 3
      [] op \in {"EqualEqual", "BangEqual"} -> 4
      [] op \in {"Less", "LessEqual", "Greater", "GreaterEqual"} -> 5
      [] op \in {"Plus", "Minus"} -> 6
      [] op \in {"Star", "Slash"} -> 7

\* No tree: the target of an assignment is not a variable.
InvalidTarget == [e |-> "InvalidTarget"]

\* The node of an operator over two trees.
NodeOf(op, left, right) ==
    IF left = InvalidTarget \/ right = InvalidTarget THEN InvalidTarget
    ELSE IF op = "Equal"
    THEN (IF left.e = "Variable" THEN Assign(left.name, right)
          ELSE InvalidTarget)
    ELSE IF op \in {"Or", "And"} THEN Logical(left, op, right)
    ELSE Binary(left, op, right)

\* The operator at the root of `x1 ops[1] x2 ... ops[n] xn+1`: one of the
\* lowest level, the last of them as the levels associate to the left, the
\* first of them for assignment, which associates to the right.
RootOf(ops) ==
    CHOOSE k \in 1..Len(ops) :
        /\ \A j \in 1..Len(ops) : Level(ops[k]) <= Level(ops[j])
        /\ \A j \in 1..Len(ops) :
              Level(ops[j]) = Level(ops[k]) =>
                 IF ops[k] = "Equal" THEN k <= j ELSE j <= k

\* The tree of `x1 ops[1] x2 ... ops[n] xn+1` by precedence.
RECURSIVE TreeOf(_, _)
TreeOf(operands, ops) ==
    IF ops = <<>> THEN operands[1]
    ELSE LET k == RootOf(ops)
         IN NodeOf(ops[k],
                   TreeOf(SubSeq(operands, 1, k), SubSeq(ops, 1, k - 1)),
                   TreeOf(SubSeq(operands, k + 1, Len(operands)),
                          SubSeq(ops, k + 1, Len(ops))))

\* The tree of an expression vector.
ExpectedTree(shape, op1, op2) ==
    LET a == Variable("a")
        b == Variable("b")
        c == Variable("c")
        d == Variable("d")
    IN CASE shape = 1 -> TreeOf(<<a, b, c>>, <<op1, op2>>)
         [] shape = 2 ->
              TreeOf(<<Grouping(TreeOf(<<a, b>>, <<op1>>)), c>>, <<op2>>)
         [] shape = 3 ->
              TreeOf(<<a, Grouping(TreeOf(<<b, c>>, <<op2>>))>>, <<op1>>)
         [] shape = 4 -> TreeOf(<<Unary("Bang", a), b, c>>, <<op1, op2>>)
         [] shape = 5 ->
              TreeOf(<<Unary("Minus", Call(a, <<>>)), b, c>>, <<op1, op2>>)
         [] shape = 6 -> TreeOf(<<a, b, c, d>>, <<op1, op2, op1>>)

\* C25: the parser builds expression trees by precedence: an operator of
\* a higher level binds tighter than one of a lower level, the operators
\* of one binary level associate to the left, assignment associates to the
\* right, unary operators and calls bind tighter than every binary
\* operator, and a parenthesised expression is a Grouping node.  An
\* assignment to what is not a variable is an error.
ParserBuildsByPrecedence ==
    parser.done /\ Len(buffer) \in 7..10 =>
        \A shape \in 1..6 : \A op1, op2 \in BinaryTokens \cup {"Equal"} :
            buffer = ExpressionVector(shape, op1, op2) =>
                LET tree == ExpectedTree(shape, op1, op2)
                IN IF tree = InvalidTarget
                   THEN status = "Err" /\ err = "Invalid assignment target."
                   ELSE status = "Ok" /\ parser.stmts = <<Expression(tree)>>

\* C25 happens: `a + b == c + d;` is parsed as the equality of two sums.
ParserBuildsByPrecedenceWitness ==
    /\ parser.done
    /\ buffer = ExpressionVector(6, "Plus", "EqualEqual")
    /\ status = "Ok"
    /\ parser.stmts =
          <<Expression(Binary(Binary(Variable("a"), "Plus", Variable("b")),
                              "EqualEqual",
                              Binary(Variable("c"), "Plus", Variable("d"))))>>

\* C24: a call with at most 255 arguments and a named or anonymous
\* function with at most 255 parameters are parsed, one with more than 255
\* is a parse error, and the cap is the same for arguments and parameters.
CountsCappedAt255 ==
    parser.done =>
        \A n \in ListLengths :
            buffer \in {CallVector(n), FunctionVector(n), AnonVector(n)} =>
                (status = "Ok") <=> (n <= 255)

(***************************************************************************)
(* The process with arguments (SpecMain).                                  *)
(***************************************************************************)

\* Reading, lexing, parsing or interpreting the script failed.
ScriptFailed == status \in {"Err", "Panic"}

\* C27: when the host is run with a script path and reading, lexing,
\* parsing or interpreting the script fails, a diagnostic is written and
\* the exit code is not 0; the exit code is 0 only on clean termination.
FailureExitsNonzero ==
    exit_code # <<>> /\ err # "Usage: rl [script]" =>
        /\ ScriptFailed => exit_code[1] # 0
        /\ status = "Err" => out # <<>> /\ out[Len(out)] = "Error: " \o err
        /\ exit_code[1] = 0 => ~ScriptFailed

====
